---- MODULE Spec2Model ----
(***************************************************************************)
(* Scene construction and run loop of the physics engine module             *)
(* (runSimulation and its helpers), with the Matter.js backend modelled as  *)
(* far as the module drives it: a world of bodies and constraints, the      *)
(* engine's pair list, the runner's frame request, event listeners and      *)
(* browser timers.                                                          *)
(***************************************************************************)
EXTENDS Integers, Sequences, FiniteSets, TLC

VARIABLES
  phase,          \* "idle" (nothing constructed), "running", "stopped"
  scene,          \* the argument of runSimulation: objects, constraints, layout
  bodies,         \* bodies of engine.world (composites flattened)
  joints,         \* constraints of engine.world
  bodiesMap,      \* name -> body id
  conveyorParams, \* name -> speed
  hasStatic,      \* the flag of runSimulation
  vel,            \* body id -> velocity record, for every non-static body built
  pairs,          \* engine.pairs.list, as a set of oriented pairs <<bodyA, bodyB>>
  pairsFrom,      \* what produced the pair list: "create" (Engine.create, empty),
                  \* "thisTick" (the update of the tick under way or just over),
                  \* "earlierTick" (the update of a tick before the one under way)
  frameRequested, \* the runner holds a pending animation frame request
  renderRunning,  \* the renderer holds a pending animation frame request
  hookOn,         \* onBeforeUpdate is subscribed to beforeUpdate
  listeners,      \* launcher constraints whose collisionStart listener is subscribed
  timers,         \* launcher constraint index -> number of pending removal timeouts
  canvas,         \* "none", "attached", "removed": render.canvas in the DOM
  inTick,         \* a frame callback is between its beforeUpdate emission and the rest of Engine.update
  fired,          \* launcher constraints whose removal timeout has run
  thrown,         \* exceptions raised so far, by the place that raised them
  calls,          \* how often each cleanup call of stop() has been executed
  summary,        \* the summary of the handle returned last: its two counts
  \* the components that own a render surface and call runSimulation
  page,           \* "none", "input" (PhysicsInputBox), "play" (PlayPage)
  handles,        \* the handles runSimulation has returned: "running" or "stopped" each
  stored,         \* runningSimulation.current: an index of handles, 0 for null
  loading,        \* PhysicsInputBox: the loading state, which disables the start button
  awaiting,       \* PhysicsInputBox: handleStartSimulate calls suspended at await simulate(...)
  cached,         \* PhysicsInputBox: simulationCache holds the key of the present scene
  fetching,       \* PlayPage: fetches of the shared animation in flight
  autoStart,      \* PlayPage: pending timeouts of the delayed start
  loaded,         \* PlayPage: the animation state is set
  simulating,     \* PlayPage: the simulating state, which disables the play button
  loads,          \* PlayPage: how often the share code has changed
  \* the geometry helpers, applied on their own
  arg,            \* the point sequence a helper is applied to
  res,            \* the helper applied last and what it returned
  \* PhysicsInputBox: the authoring state
  interactionMode,       \* 'segment', 'select_pivot', 'select_first_endpoint', 'select_second_endpoint'
  pendingPivotSelection, \* the element waiting for its endpoints, or null
  constraintRelations,   \* the constraint specs handed to runSimulation
  assignments,           \* the elements that have a contour assigned
  lastImageContour,      \* the contour of the last segmentation is not empty
  segmenting,            \* calls of segment(...) in flight
  lastEvent,             \* the handler that ran last
  \* the auth store and the requests of the API modules
  token,          \* the JWT, or null
  user,           \* the user record, or null
  isLoggedIn,     \* the flag of the store
  requests,       \* requests in flight: the channel and the token each carries
  lastResponse    \* the store call or the response handled last: channel, status, how the caller got it

engineVars == <<phase, scene, bodies, joints, bodiesMap, conveyorParams, hasStatic, vel, pairs,
                pairsFrom, frameRequested, renderRunning, hookOn, listeners, timers, canvas,
                inTick, fired, thrown, calls, summary>>

callerVars == <<page, handles, stored, loading, awaiting, cached, fetching, autoStart,
                loaded, simulating, loads>>

pureVars == <<arg, res>>

authorVars == <<interactionMode, pendingPivotSelection, constraintRelations, assignments,
                lastImageContour, segmenting, lastEvent>>

storeVars == <<token, user, isLoggedIn, requests, lastResponse>>

otherVars == <<callerVars, pureVars, authorVars, storeVars>>

vars == <<engineVars, otherVars>>

-----------------------------------------------------------------------------
(* Bounds of the exploration *)

MaxItems == 3     \* objects plus constraints of an explored scene description
MaxPairs == 2     \* contact pairs in the engine's pair list at one time
MaxTimers == 2    \* pending removal timeouts per launcher
MaxStops == 2     \* calls of stop() on one handle
MaxHandles == 3   \* handles one component obtains from runSimulation
MaxLoads == 3     \* changes of the share code of the play page
MaxLen == 4       \* points of a sequence a geometry helper is applied to

-----------------------------------------------------------------------------
(* Arithmetic *)

Max(a, b) == IF a >= b THEN a ELSE b
Min(a, b) == IF a <= b THEN a ELSE b

\* Math.round(n / d) for n >= 0, d > 0: halves round up
MathRound(n, d) == (2 * n + d) \div (2 * d)

Pt(x, y) == [x |-> x, y |-> y]

\* squared Euclidean distance; Math.sqrt(q) > 1 exactly when q > 1
Dist2(p, q) == (p.x - q.x) * (p.x - q.x) + (p.y - q.y) * (p.y - q.y)

RECURSIVE SumX(_, _), SumY(_, _)
SumX(points, k) == IF k = 0 THEN 0 ELSE points[k].x + SumX(points, k - 1)
SumY(points, k) == IF k = 0 THEN 0 ELSE points[k].y + SumY(points, k - 1)

\* calculateContourCentroid, as the sum of the points: the centroid is
\* ContourSum(points) / Len(points)
ContourSum(points) == Pt(SumX(points, Len(points)), SumY(points, Len(points)))

-----------------------------------------------------------------------------
(* Layout: canvas size and scale factors *)

DefaultWidth == 640
DefaultHeight == 360

\* layout input: the size of imageRect || containerRect in half pixels (0: absent
\* or zero), the natural size of the image, and whether a container was passed
CanvasWidth(L) == Max(1, IF L.rectW2 = 0 THEN DefaultWidth ELSE L.rectW2 \div 2)
CanvasHeight(L) == Max(1, IF L.rectH2 = 0 THEN DefaultHeight ELSE L.rectH2 \div 2)

\* sx, sy as fractions n/d
ScaleX(L) == IF L.natW = 0 THEN [n |-> 1, d |-> 1] ELSE [n |-> CanvasWidth(L), d |-> L.natW]
ScaleY(L) == IF L.natH = 0 THEN [n |-> 1, d |-> 1] ELSE [n |-> CanvasHeight(L), d |-> L.natH]

\* Math.max(sx, sy)
MaxScale(L) ==
  LET sx == ScaleX(L)
      sy == ScaleY(L)
  IN IF sx.n * sy.d >= sy.n * sx.d THEN sx ELSE sy

\* { x: Math.round(p.x * sx), y: Math.round(p.y * sy) }
ScalePoint(p, L) ==
  Pt(MathRound(p.x * ScaleX(L).n, ScaleX(L).d), MathRound(p.y * ScaleY(L).n, ScaleY(L).d))

-----------------------------------------------------------------------------
(* Contour sanitation *)

RECURSIVE Dedup(_, _, _)
\* the loop of preprocessContour: keep a point only if it is farther than 1
\* from the last kept point
Dedup(points, i, unique) ==
  IF i > Len(points) THEN unique
  ELSE Dedup(points, i + 1,
             IF Dist2(points[i], unique[Len(unique)]) > 1
             THEN Append(unique, points[i]) ELSE unique)

DedupAll(points) == IF Len(points) = 0 THEN points ELSE Dedup(points, 2, <<points[1]>>)

\* preprocessContour with a bug: only the first point that lies within 1 of
\* the point before it is removed, and the result is returned as it is
preprocessContour_OneAtATime(points) ==
  LET close == { i \in 2..Len(points) : Dist2(points[i], points[i - 1]) <= 1 }
  IN IF close = {} THEN points
     ELSE LET m == CHOOSE i \in close : \A k \in close : i <= k
          IN [k \in 1..(Len(points) - 1) |-> IF k < m THEN points[k] ELSE points[k + 1]]

preprocessContour(points) ==
  IF Len(points) < 3 THEN points
  ELSE LET unique == Dedup(points, 2, <<points[1]>>)
       IN IF Len(unique) >= 3 THEN unique ELSE points

Abs(a) == IF a >= 0 THEN a ELSE -a

RECURSIVE ShoelaceSum(_, _)
\* the loop of polygonArea: the sum of x[i] * y[j] - x[j] * y[i] over the
\* first k points, j the next index (cyclic)
ShoelaceSum(points, k) ==
  IF k = 0 THEN 0
  ELSE LET j == (k % Len(points)) + 1
       IN points[k].x * points[j].y - points[j].x * points[k].y + ShoelaceSum(points, k - 1)

\* polygonArea, doubled: Math.abs(area) / 2 is half of this value
polygonArea(points) == Abs(ShoelaceSum(points, Len(points)))

\* calculateCentroid, times the number of points: the centroid is
\* calculateCentroid(points) / Len(points)
calculateCentroid(points) == ContourSum(points)

\* decomposeToTriangleFan: one triangle (centroid, P[k], P[k+1]) per edge, in
\* edge order. The three corners are given in units of 1/n, n the number of
\* points: the centroid as the sum of the points, a point as n times itself.
decomposeToTriangleFan(points) ==
  IF Len(points) < 3 THEN <<>>
  ELSE LET n == Len(points)
           centroid == calculateCentroid(points)
       IN [k \in 1..n |->
             <<centroid,
               Pt(n * points[k].x, n * points[k].y),
               Pt(n * points[(k % n) + 1].x, n * points[(k % n) + 1].y)>>]

-----------------------------------------------------------------------------
(* Maps keyed by name *)

NoBody == <<"none">>
EmptyMap == [k \in {} |-> NoBody]
EmptySpeeds == [k \in {} |-> 0]
MapPut(m, k, v) == [x \in (DOMAIN m) \cup {k} |-> IF x = k THEN v ELSE m[x]]

\* bodiesMap[name]: undefined (NoBody) for a name that is no key
MapGet(m, k) == IF k \in DOMAIN m THEN m[k] ELSE NoBody

\* `body-${Object.keys(bodiesMap).length}`
DefaultBodyName(n) == <<"body-0", "body-1", "body-2", "body-3", "body-4", "body-5">>[n + 1]

-----------------------------------------------------------------------------
(* Body construction: objects.forEach of runSimulation *)

\* A body of the world. geom: for a wall <<2*cx, 2*cy, w, h>>, for a launch
\* slug <<10*x, 10*y>>, for a fan triangle <<its three corners>>, else <<>>.
MkBody(id, isStatic, label, strategy, geom) ==
  [id |-> id, isStatic |-> isStatic, label |-> label, strategy |-> strategy, geom |-> geom]

ZeroVel == [vx |-> 0, vy |-> 0, av |-> 0]

\* applyPhysicsProperties: the initial velocity of a dynamic body (the setters
\* are called only for non-zero values, a body starts at rest)
applyPhysicsProperties(st, id, obj, isStatic) ==
  IF isStatic THEN st
  ELSE [st EXCEPT !.vel = MapPut(@, id,
          [vx |-> IF obj.v0.vx # 0 \/ obj.v0.vy # 0 THEN obj.v0.vx ELSE 0,
           vy |-> IF obj.v0.vx # 0 \/ obj.v0.vy # 0 THEN obj.v0.vy ELSE 0,
           av |-> IF obj.v0.av # 0 THEN obj.v0.av ELSE 0])]

\* Composite.add(engine.world, body)
AddBody(st, b) == [st EXCEPT !.bodies = @ \cup {b}]

\* ConvexBranch with a bug: a name that is already a key keeps its entries
ConvexBranch_FirstWins(st, obj, i, isStatic) ==
  LET id == <<"obj", i>>
      bodyName == IF obj.name # "" THEN obj.name
                  ELSE DefaultBodyName(Cardinality(DOMAIN st.map))
      isConveyor == obj.hasSpeed \/ obj.belt
      tagged == isStatic /\ isConveyor
      b == MkBody(id, isStatic, IF tagged THEN "conveyor" ELSE "Body", "convex", <<>>)
      s1 == AddBody(applyPhysicsProperties(st, id, obj, isStatic), b)
      s2 == IF bodyName \in DOMAIN s1.map THEN s1
            ELSE [s1 EXCEPT !.map = MapPut(@, bodyName, id)]
  IN IF tagged /\ bodyName \notin DOMAIN s2.conv
     THEN [s2 EXCEPT !.conv = MapPut(@, bodyName, IF obj.hasSpeed THEN obj.speed ELSE 0)]
     ELSE s2

\* The convex branch: one body from the contour, registered under its name,
\* tagged conveyor when static and (conveyor_speed is a number or element_type
\* is conveyor_belt).
ConvexBranch(st, obj, i, isStatic) ==
  LET id == <<"obj", i>>
      bodyName == IF obj.name # "" THEN obj.name
                  ELSE DefaultBodyName(Cardinality(DOMAIN st.map))
      isConveyor == obj.hasSpeed \/ obj.belt
      tagged == isStatic /\ isConveyor
      b == MkBody(id, isStatic, IF tagged THEN "conveyor" ELSE "Body", "convex", <<>>)
      s1 == AddBody(applyPhysicsProperties(st, id, obj, isStatic), b)
      s2 == [s1 EXCEPT !.map = MapPut(@, bodyName, id)]
  IN IF tagged
     THEN [s2 EXCEPT !.conv = MapPut(@, bodyName, IF obj.hasSpeed THEN obj.speed ELSE 0)]
     ELSE s2

\* createConvexHullBody: one hull body added to the world; nothing is
\* registered in bodiesMap and no conveyor tag is set
createConvexHullBody(st, obj, i, isStatic) ==
  LET id == <<"obj", i>>
  IN AddBody(applyPhysicsProperties(st, id, obj, isStatic),
             MkBody(id, isStatic, "Body", "hull", <<>>))

\* The static concave branch with a bug: the triangle of the closing edge, from
\* the last point back to the first, gets no body
ConcaveStaticBranch_NoClosingTriangle(st, obj, i, processed, isStatic) ==
  LET triangles == decomposeToTriangleFan(processed)
  IN IF Len(triangles) = 0
     THEN createConvexHullBody(st, obj, i, isStatic)
     ELSE [st EXCEPT !.bodies = @ \cup
             { MkBody(<<"tri", i, k>>, TRUE, "Body", "fan", <<triangles[k]>>)
               : k \in 1..(Len(triangles) - 1) }]

\* The static concave branch: one static body per fan triangle, in a composite
\* added to the world; hull fallback when the fan is empty
ConcaveStaticBranch(st, obj, i, processed, isStatic) ==
  LET triangles == decomposeToTriangleFan(processed)
  IN IF Len(triangles) = 0
     THEN createConvexHullBody(st, obj, i, isStatic)
     ELSE [st EXCEPT !.bodies = @ \cup
             { MkBody(<<"tri", i, k>>, TRUE, "Body", "fan", <<triangles[k]>>)
               : k \in 1..Len(triangles) }]

\* BuildObject with a bug: hasStatic is set from the role alone, before the
\* contour is looked at
BuildObject_StaticFlagFirst(st, obj, i, L) ==
  IF obj.role = "constraint" THEN st
  ELSE LET s0 == [st EXCEPT !.hasStatic = @ \/ obj.role = "static"]
       IN IF Len(obj.contour) < 3 THEN s0
          ELSE LET scaled == [k \in 1..Len(obj.contour) |-> ScalePoint(obj.contour[k], L)]
                   processed == preprocessContour(scaled)
               IN IF Len(processed) < 3 THEN s0
                  ELSE IF ~obj.is_concave THEN ConvexBranch(s0, obj, i, obj.role = "static")
                  ELSE IF obj.role = "static"
                       THEN ConcaveStaticBranch(s0, obj, i, processed, TRUE)
                  ELSE createConvexHullBody(s0, obj, i, FALSE)

\* One iteration of objects.forEach
BuildObject(st, obj, i, L) ==
  IF obj.role = "constraint" THEN st
  ELSE IF Len(obj.contour) < 3 THEN st
  ELSE LET scaled == [k \in 1..Len(obj.contour) |-> ScalePoint(obj.contour[k], L)]
           processed == preprocessContour(scaled)
       IN IF Len(processed) < 3 THEN st
          ELSE LET isConcave == obj.is_concave
                   isStatic == obj.role = "static"
                   s1 == [st EXCEPT !.hasStatic = @ \/ isStatic]
               IN IF ~isConcave THEN ConvexBranch(s1, obj, i, isStatic)
                  ELSE IF isStatic THEN ConcaveStaticBranch(s1, obj, i, processed, isStatic)
                  ELSE createConvexHullBody(s1, obj, i, isStatic)

RECURSIVE BuildObjects(_, _, _, _)
BuildObjects(st, objs, i, L) ==
  IF i > Len(objs) THEN st
  ELSE BuildObjects(BuildObject(st, objs[i], i, L), objs, i + 1, L)

\* the state of the construction before the first object
EmptyBuild ==
  [bodies |-> {}, joints |-> {}, map |-> EmptyMap, conv |-> EmptySpeeds,
   hasStatic |-> FALSE, vel |-> EmptyMap, listeners |-> {}, thrown |-> {}]

-----------------------------------------------------------------------------
(* Constraint construction: constraints.forEach of runSimulation *)

ReducedBodyWidth == 20

\* An optional point is <<>> (undefined) or <<p>>; a length is <<>> (undefined,
\* the backend measures it) or <<n, d>> for the fraction n/d.
NoPoint == <<>>
PointOrZero(p) == IF p = <<>> THEN Pt(0, 0) ELSE p[1]

MkJoint(id, type, bodyA, pointA, bodyB, pointB, len) ==
  [id |-> id, type |-> type, bodyA |-> bodyA, pointA |-> pointA,
   bodyB |-> bodyB, pointB |-> pointB, len |-> len]

\* the endpoint of a constraint for a looked-up body: the body when the lookup
\* found one, else the fixed world point
AnchorPoint(body, point) == IF body # NoBody THEN NoPoint ELSE <<point>>

\* springType 'constraint': one constraint between the two endpoints
SpringConstraintBranch(st, c, j, L) ==
  LET firstPoint == ScalePoint(PointOrZero(c.pivotPoint), L)
      secondPoint == ScalePoint(PointOrZero(c.secondPivotPoint), L)
      firstBody == MapGet(st.map, c.pivotName)
      secondBody == MapGet(st.map, c.secondPivotName)
  IN [st EXCEPT !.joints = @ \cup
        { MkJoint(<<"con", j>>, "spring", firstBody, AnchorPoint(firstBody, firstPoint),
                  secondBody, AnchorPoint(secondBody, secondPoint),
                  <<c.springLength * MaxScale(L).n, MaxScale(L).d>>) }]

\* SpringLauncherBranch with a bug: the slug is placed at the second point
SpringLauncherBranch_SlugAtSecond(st, c, j, L) ==
  LET firstPoint == ScalePoint(PointOrZero(c.pivotPoint), L)
      secondPoint == ScalePoint(PointOrZero(c.secondPivotPoint), L)
      firstBody == MapGet(st.map, c.pivotName)
      secondBody == MapGet(st.map, c.secondPivotName)
      slug == MkBody(<<"slug", j>>, FALSE, "spring_launcher_reduced", "slug",
                     <<10 * secondPoint.x, 10 * secondPoint.y>>)
  IN [st EXCEPT
        !.bodies = @ \cup {slug},
        !.vel = MapPut(@, slug.id, ZeroVel),
        !.joints = @ \cup
          { MkJoint(<<"con", j>>, "launcher", firstBody, AnchorPoint(firstBody, firstPoint),
                    slug.id, NoPoint,
                    <<c.springLength * MaxScale(L).n - ReducedBodyWidth * MaxScale(L).d,
                      MaxScale(L).d>>) },
        !.listeners = @ \cup {[con |-> j, secondBody |-> secondBody]}]

\* springType 'launcher': the launch slug 90% of the way from the first to the
\* second point, one constraint from the first endpoint to the slug, and a
\* collisionStart listener that closes over secondBody, the slug and the constraint
SpringLauncherBranch(st, c, j, L) ==
  LET firstPoint == ScalePoint(PointOrZero(c.pivotPoint), L)
      secondPoint == ScalePoint(PointOrZero(c.secondPivotPoint), L)
      firstBody == MapGet(st.map, c.pivotName)
      secondBody == MapGet(st.map, c.secondPivotName)
      slug == MkBody(<<"slug", j>>, FALSE, "spring_launcher_reduced", "slug",
                     <<10 * firstPoint.x + 9 * (secondPoint.x - firstPoint.x),
                       10 * firstPoint.y + 9 * (secondPoint.y - firstPoint.y)>>)
  IN [st EXCEPT
        !.bodies = @ \cup {slug},
        !.vel = MapPut(@, slug.id, ZeroVel),
        !.joints = @ \cup
          { MkJoint(<<"con", j>>, "launcher", firstBody, AnchorPoint(firstBody, firstPoint),
                    slug.id, NoPoint,
                    <<c.springLength * MaxScale(L).n - ReducedBodyWidth * MaxScale(L).d,
                      MaxScale(L).d>>) },
        !.listeners = @ \cup {[con |-> j, secondBody |-> secondBody]}]

\* SinglePivotBranch with a bug: a spec whose pivot names no body is dropped
SinglePivotBranch_NeedsPivotBody(st, c, j, L) ==
  LET bodyB == MapGet(st.map, c.bodyName)
      pivotPointScaled == ScalePoint(PointOrZero(c.pivotPoint), L)
      length == IF c.length # 0
                THEN <<c.length * MaxScale(L).n, MaxScale(L).d>> ELSE <<>>
      pivotBody == MapGet(st.map, c.pivotName)
  IN IF bodyB = NoBody \/ pivotBody = NoBody THEN st
     ELSE [st EXCEPT !.joints = @ \cup
             { MkJoint(<<"con", j>>, "single", pivotBody,
                       AnchorPoint(pivotBody, pivotPointScaled), bodyB, NoPoint, length) }]

\* SinglePivotBranch with a bug: the subject is not checked
SinglePivotBranch_NoSubjectCheck(st, c, j, L) ==
  LET bodyB == MapGet(st.map, c.bodyName)
      pivotPointScaled == ScalePoint(PointOrZero(c.pivotPoint), L)
      length == IF c.length # 0
                THEN <<c.length * MaxScale(L).n, MaxScale(L).d>> ELSE <<>>
      pivotBody == MapGet(st.map, c.pivotName)
  IN [st EXCEPT !.joints = @ \cup
        { MkJoint(<<"con", j>>, "single", pivotBody,
                  AnchorPoint(pivotBody, pivotPointScaled), bodyB, NoPoint, length) }]

\* the single-pivot path: skipped when the subject is not in bodiesMap, else
\* one constraint from the pivot body, or from the fixed pivot point, to the subject
SinglePivotBranch(st, c, j, L) ==
  LET bodyB == MapGet(st.map, c.bodyName)
      pivotPointScaled == ScalePoint(PointOrZero(c.pivotPoint), L)
      length == IF c.length # 0
                THEN <<c.length * MaxScale(L).n, MaxScale(L).d>> ELSE <<>>
      pivotBody == MapGet(st.map, c.pivotName)
  IN IF bodyB = NoBody THEN st
     ELSE [st EXCEPT !.joints = @ \cup
             { MkJoint(<<"con", j>>, "single", pivotBody,
                       AnchorPoint(pivotBody, pivotPointScaled), bodyB, NoPoint, length) }]

\* Composite.add(engine.world, constraint) appends to the world's constraint
\* list: a constraint added by a step gets the next place in that list
Appended(before, after) ==
  [after EXCEPT !.joints =
     before.joints \cup { jt @@ [pos |-> Cardinality(before.joints) + 1]
                          : jt \in after.joints \ before.joints }]

\* One iteration of constraints.forEach
BuildConstraint(st, c, j, L) ==
  LET isSpring == c.springType \in {"constraint", "launcher"}
  IN Appended(st,
       IF isSpring /\ c.secondPivotPoint # NoPoint
       THEN IF c.springType = "constraint" THEN SpringConstraintBranch(st, c, j, L)
            ELSE SpringLauncherBranch(st, c, j, L)
       ELSE SinglePivotBranch(st, c, j, L))

RECURSIVE BuildConstraints(_, _, _, _)
\* an exception leaves forEach, and runSimulation, at once
BuildConstraints(st, cons, j, L) ==
  IF j > Len(cons) \/ st.thrown # {} THEN st
  ELSE BuildConstraints(BuildConstraint(st, cons[j], j, L), cons, j + 1, L)

-----------------------------------------------------------------------------
(* Boundary walls *)

MinWallThickness == 10

\* Math.max(10, Math.floor(Math.min(width, height) * 0.02))
WallThickness(width, height) == Max(MinWallThickness, (Min(width, height) * 2) \div 100)

\* the four invisible static rectangles (top, bottom, left, right)
BoundaryWalls(width, height) ==
  LET t == WallThickness(width, height)
  IN { MkBody(<<"wall", 1>>, TRUE, "Rectangle Body", "wall", <<width, -t, width, t>>),
       MkBody(<<"wall", 2>>, TRUE, "Rectangle Body", "wall", <<width, 2 * height + t, width, t>>),
       MkBody(<<"wall", 3>>, TRUE, "Rectangle Body", "wall", <<-t, height, t, height>>),
       MkBody(<<"wall", 4>>, TRUE, "Rectangle Body", "wall", <<2 * width + t, height, t, height>>) }

AddWalls(st, L) ==
  IF ~st.hasStatic
  THEN [st EXCEPT !.bodies = @ \cup BoundaryWalls(CanvasWidth(L), CanvasHeight(L))]
  ELSE st

\* runSimulation up to the start of the loops: bodies, constraints, walls
Construct(objs, cons, L) ==
  LET built == BuildConstraints(BuildObjects(EmptyBuild, objs, 1, L), cons, 1, L)
  IN IF built.thrown # {} THEN built ELSE AddWalls(built, L)

-----------------------------------------------------------------------------
(* Explored scene descriptions *)

Tri == <<Pt(0, 0), Pt(8, 0), Pt(0, 8)>>
Arrow == <<Pt(0, 0), Pt(8, 0), Pt(2, 2), Pt(0, 8)>>
\* the arrow with a fifth point next to the first: four remain
ArrowDup == <<Pt(0, 0), Pt(0, 1), Pt(8, 0), Pt(2, 2), Pt(0, 8)>>
\* a fourth point next to the first: removed by the sanitizer, three remain
TriDup == <<Pt(0, 0), Pt(0, 1), Pt(8, 0), Pt(0, 8)>>
\* three points within one unit of the first
Near == <<Pt(0, 0), Pt(1, 0), Pt(0, 1)>>
\* far enough apart as given, within one unit once scaled by 1/2
Small == <<Pt(0, 0), Pt(2, 0), Pt(0, 2)>>
Short == <<Pt(0, 0), Pt(8, 0)>>
\* a square: its vertex average (4, 4) is also its centre of area
Sq == <<Pt(0, 0), Pt(8, 0), Pt(8, 8), Pt(0, 8)>>

Obj(name, role, contour, concave, belt, hasSpeed, speed, v0) ==
  [name |-> name, role |-> role, contour |-> contour, is_concave |-> concave,
   belt |-> belt, hasSpeed |-> hasSpeed, speed |-> speed, v0 |-> v0]

Moving == [vx |-> 1, vy |-> 1, av |-> 1]

ObjMenu ==
  { Obj("A", "dynamic", Tri, FALSE, FALSE, FALSE, 0, ZeroVel),
    Obj("A", "dynamic", Arrow, TRUE, FALSE, FALSE, 0, ZeroVel),
    Obj("A", "dynamic", Near, FALSE, FALSE, FALSE, 0, ZeroVel),
    Obj("A", "dynamic", Sq, FALSE, FALSE, FALSE, 0, ZeroVel),
    Obj("", "dynamic", Tri, FALSE, FALSE, TRUE, 2, Moving),
    Obj("B", "static", TriDup, FALSE, FALSE, TRUE, 2, Moving),
    Obj("B", "static", Arrow, TRUE, TRUE, FALSE, 0, ZeroVel),
    Obj("B", "static", ArrowDup, TRUE, FALSE, FALSE, 0, ZeroVel),
    Obj("B", "static", Short, FALSE, FALSE, FALSE, 0, ZeroVel),
    Obj("B", "static", Small, FALSE, TRUE, FALSE, 0, ZeroVel),
    Obj("S", "constraint", Tri, FALSE, FALSE, FALSE, 0, ZeroVel) }

Con(bodyName, pivotName, pivotPoint, secondName, secondPoint, springType, ctype, length, springLength) ==
  [bodyName |-> bodyName, pivotName |-> pivotName, pivotPoint |-> pivotPoint,
   secondPivotName |-> secondName, secondPivotPoint |-> secondPoint,
   springType |-> springType, constraintType |-> ctype,
   length |-> length, springLength |-> springLength]

\* the name the authoring component gives an endpoint that is no object, and
\* the key an absent name is looked up under
Anchor == "anchor"
Undefined == "undefined"

\* Math.sqrt of a square number
SqrtOfSquare(q) == CHOOSE r \in 0..q : r * r = q

\* calculateDistance(calculateContourCentroid(contour), p), for a contour and a
\* point whose distance is a whole number
CentroidDistance(contour, p) ==
  LET n == Len(contour)
      nd2 == Dist2(Pt(n * p.x, n * p.y), ContourSum(contour))
  IN SqrtOfSquare(nd2) \div n

\* handlePivotSelection for a pendulum: the click is taken to hit no segmented
\* element, so the pivot is the temporary anchor; the length is the distance
\* from the vertex average of the subject's contour to the pivot, in image coordinates
handlePivotSelection(bodyName, bodyContour, pivotPointImage) ==
  Con(bodyName, Anchor, <<pivotPointImage>>, Undefined, NoPoint, "null", "pendulum",
      CentroidDistance(bodyContour, pivotPointImage), 0)

ConMenu ==
  { handlePivotSelection("A", Sq, Pt(9, 4)),
    Con("A", Anchor, <<Pt(5, 3)>>, Undefined, NoPoint, "null", "pendulum", 0, 0),
    Con("A", "B", <<Pt(5, 3)>>, Undefined, NoPoint, "null", "pendulum", 6, 0),
    Con("A", Undefined, NoPoint, Undefined, NoPoint, "null", "rope", 0, 0),
    Con("X", Anchor, <<Pt(5, 3)>>, Undefined, NoPoint, "null", "rope", 6, 0),
    Con("A", Anchor, <<Pt(5, 3)>>, Undefined, NoPoint, "constraint", "spring", 0, 0),
    Con("S", "A", <<Pt(1, 1)>>, "B", <<Pt(7, 5)>>, "constraint", "spring", 0, 30),
    Con("S", Anchor, <<Pt(1, 1)>>, Anchor, <<Pt(7, 5)>>, "constraint", "spring", 0, 30),
    Con("S", Anchor, <<Pt(1, 1)>>, "A", <<Pt(7, 5)>>, "launcher", "spring", 0, 30),
    Con("S", "B", <<Pt(1, 1)>>, Anchor, <<Pt(7, 5)>>, "launcher", "spring", 0, 30) }

Layout(container, rectW2, rectH2, natW, natH) ==
  [container |-> container, rectW2 |-> rectW2, rectH2 |-> rectH2, natW |-> natW, natH |-> natH]

\* no rectangle and no natural size (640 x 360, scale 1); 640.5 x 360 shown
\* for a 1280 x 720 image (scale 1/2); 600 x 800 shown for 600 x 400 (sx 1, sy 2)
LayoutMenu ==
  { Layout(FALSE, 0, 0, 0, 0),
    Layout(TRUE, 1281, 720, 1280, 720),
    Layout(TRUE, 1200, 1600, 600, 400) }

ListsOfLen(S, n) == [1..n -> S]

NoScene == [objects |-> <<>>, constraints |-> <<>>, layout |-> Layout(FALSE, 0, 0, 0, 0)]
NoCalls == [stop |-> 0, runnerStop |-> 0, renderStop |-> 0, eventsOff |-> 0,
            worldClear |-> 0, engineClear |-> 0, canvasRemove |-> 0]

-----------------------------------------------------------------------------
(* The handle's life: runSimulation, the frame callbacks, the timers, stop *)

\* no component is mounted
CallersIdle ==
  /\ page = "none"
  /\ handles = <<>>
  /\ stored = 0
  /\ loading = FALSE
  /\ awaiting = 0
  /\ cached = FALSE
  /\ fetching = 0
  /\ autoStart = 0
  /\ loaded = FALSE
  /\ simulating = FALSE
  /\ loads = 0

\* nothing is constructed
\* the summary text of a handle, "objects=N" followed by ", constraints=K" only
\* when K > 0: seen as the count and the optional count it prints
NoSummary == [objects |-> "none"]
SummaryOf_Realized(objects, constraints) ==
  LET built == Construct(objects, constraints, Layout(FALSE, 0, 0, 0, 0))
      constraintCount == Cardinality(built.joints)
  IN [objects |-> Cardinality(built.bodies),
      constraints |-> IF constraintCount > 0 THEN <<constraintCount>> ELSE <<>>]

SummaryOf(objects, constraints) ==
  LET constraintCount == Len(constraints)
  IN [objects |-> Len(objects),
      constraints |-> IF constraintCount > 0 THEN <<constraintCount>> ELSE <<>>]

EngineIdle ==
  /\ phase = "idle"
  /\ scene = NoScene
  /\ bodies = {}
  /\ joints = {}
  /\ bodiesMap = EmptyMap
  /\ conveyorParams = EmptySpeeds
  /\ hasStatic = FALSE
  /\ vel = EmptyMap
  /\ pairs = {}
  /\ pairsFrom = "create"
  /\ frameRequested = FALSE
  /\ renderRunning = FALSE
  /\ hookOn = FALSE
  /\ listeners = {}
  /\ timers = EmptySpeeds
  /\ canvas = "none"
  /\ inTick = FALSE
  /\ fired = {}
  /\ thrown = {}
  /\ calls = NoCalls
  /\ summary = NoSummary

\* no helper has been applied
NoResult == [fn |-> "none"]
PureIdle == arg = <<>> /\ res = NoResult

\* the authoring component as mounted: useState('segment'), useState(null), useState([])
NoSelection == [element |-> "null"]
AuthorIdle ==
  /\ interactionMode = "segment"
  /\ pendingPivotSelection = NoSelection
  /\ constraintRelations = <<>>
  /\ assignments = <<>>
  /\ lastImageContour = FALSE
  /\ segmenting = 0
  /\ lastEvent = "none"

\* the auth store as created: token null, user null, isLoggedIn false
NoToken == 0
NoUser == 0
NoResponse == [via |-> "none"]
StoreIdle ==
  /\ token = NoToken
  /\ user = NoUser
  /\ isLoggedIn = FALSE
  /\ requests = {}
  /\ lastResponse = NoResponse

Init == CallersIdle /\ PureIdle /\ EngineIdle /\ AuthorIdle /\ StoreIdle

\* the pending removal timeouts after a call of runSimulation: none for the
\* launchers just built; timeouts set for an earlier handle stay pending
TimersAfterStart(built) ==
  [j \in {l.con : l \in built.listeners} \cup DOMAIN timers |->
     IF j \in DOMAIN timers THEN timers[j] ELSE 0]

\* runSimulation with a bug: the name-to-body map is kept across calls
runSimulation_SharedMap(sc) ==
  /\ phase \in {"idle", "stopped"}
  /\ \E built \in {Construct(sc.objects, sc.constraints, sc.layout)} :
     LET ok == built.thrown = {}
     IN
     /\ scene' = sc
     /\ bodies' = built.bodies
     /\ joints' = built.joints
     /\ bodiesMap' = [n \in DOMAIN bodiesMap \cup DOMAIN built.map |->
                        IF n \in DOMAIN built.map THEN built.map[n] ELSE bodiesMap[n]]
     /\ conveyorParams' = built.conv
     /\ hasStatic' = built.hasStatic
     /\ vel' = built.vel
     /\ listeners' = built.listeners
     /\ timers' = TimersAfterStart(built)
     /\ thrown' = thrown \cup built.thrown
     /\ canvas' = "attached"
     /\ phase' = IF ok THEN "running" ELSE "failed"
     /\ frameRequested' = ok
     /\ renderRunning' = ok
     /\ hookOn' = ok
     /\ pairs' = {}
     /\ pairsFrom' = "create"
     /\ summary' = IF ok THEN SummaryOf(sc.objects, sc.constraints) ELSE NoSummary
     /\ UNCHANGED <<inTick, fired, calls>>
     /\ UNCHANGED otherVars

\* runSimulation with a bug: the call gives way to the event loop (an await)
\* between Runner.run and Events.on, and the subscription is lost
runSimulation_HookLate(sc) ==
  /\ phase \in {"idle", "stopped"}
  /\ \E built \in {Construct(sc.objects, sc.constraints, sc.layout)} :
     LET ok == built.thrown = {}
     IN
     /\ scene' = sc
     /\ bodies' = built.bodies
     /\ joints' = built.joints
     /\ bodiesMap' = built.map
     /\ conveyorParams' = built.conv
     /\ hasStatic' = built.hasStatic
     /\ vel' = built.vel
     /\ listeners' = built.listeners
     /\ timers' = TimersAfterStart(built)
     /\ thrown' = thrown \cup built.thrown
     /\ canvas' = "attached"
     /\ phase' = IF ok THEN "running" ELSE "failed"
     /\ frameRequested' = ok
     /\ renderRunning' = ok
     /\ hookOn' = FALSE
     /\ pairs' = {}
     /\ pairsFrom' = "create"
     /\ summary' = IF ok THEN SummaryOf(sc.objects, sc.constraints) ELSE NoSummary
     /\ UNCHANGED <<inTick, fired, calls>>
     /\ UNCHANGED otherVars

\* runSimulation(sc): engine, renderer (with its canvas), name-to-body map and
\* conveyor table are created by the call; the construction follows; then
\* Render.run, Runner.run and the subscription of onBeforeUpdate, all in one
\* synchronous call. It is called when no handle exists or the last one is stopped.
runSimulation(sc) ==
  /\ phase \in {"idle", "stopped"}
  /\ \E built \in {Construct(sc.objects, sc.constraints, sc.layout)} :
     LET ok == built.thrown = {}
     IN
     /\ scene' = sc
     /\ bodies' = built.bodies
     /\ joints' = built.joints
     /\ bodiesMap' = built.map
     /\ conveyorParams' = built.conv
     /\ hasStatic' = built.hasStatic
     /\ vel' = built.vel
     /\ listeners' = built.listeners
     /\ timers' = TimersAfterStart(built)
     /\ thrown' = thrown \cup built.thrown
     /\ canvas' = "attached"
     /\ phase' = IF ok THEN "running" ELSE "failed"
     /\ frameRequested' = ok
     /\ renderRunning' = ok
     /\ hookOn' = ok
     /\ pairs' = {}
     /\ pairsFrom' = "create"
     /\ summary' = IF ok THEN SummaryOf(sc.objects, sc.constraints) ELSE NoSummary
     /\ UNCHANGED <<inTick, fired, calls>>
     /\ UNCHANGED otherVars

\* runSimulation on a scene description of at most MaxItems objects and constraints
StartBuild ==
  /\ phase = "idle"
  /\ \E a \in 0..MaxItems : \E b \in 0..(MaxItems - a) :
       \E objs \in ListsOfLen(ObjMenu, a), cons \in ListsOfLen(ConMenu, b), L \in LayoutMenu :
         runSimulation([objects |-> objs, constraints |-> cons, layout |-> L])

\* stop() with a bug: the runner is not halted
Stop_KeepsRunner ==
  /\ phase \in {"running", "stopped"}
  /\ ~inTick
  /\ calls.stop < MaxStops
  /\ phase' = "stopped"
  /\ renderRunning' = FALSE
  /\ hookOn' = FALSE
  /\ bodies' = {}
  /\ joints' = {}
  /\ vel' = EmptyMap
  /\ pairs' = {}
  /\ canvas' = "removed"
  /\ calls' = [calls EXCEPT !.stop = @ + 1, !.renderStop = @ + 1,
                            !.eventsOff = @ + 1, !.worldClear = @ + 1, !.engineClear = @ + 1,
                            !.canvasRemove = IF canvas = "attached" THEN @ + 1 ELSE @]
  /\ UNCHANGED <<scene, bodiesMap, conveyorParams, hasStatic, listeners, timers, inTick,
                 fired, thrown, frameRequested, pairsFrom>>
  /\ UNCHANGED <<summary, otherVars>>

\* stop() with a bug: render.canvas.remove() without the test of render.canvas,
\* a TypeError once the reference is null
Stop_CanvasUnguarded ==
  /\ phase \in {"running", "stopped"}
  /\ ~inTick
  /\ calls.stop < MaxStops
  /\ phase' = "stopped"
  /\ frameRequested' = FALSE
  /\ renderRunning' = FALSE
  /\ hookOn' = FALSE
  /\ bodies' = {}
  /\ joints' = {}
  /\ vel' = EmptyMap
  /\ pairs' = {}
  /\ canvas' = "removed"
  /\ thrown' = IF canvas = "attached" THEN thrown ELSE thrown \cup {"stop"}
  /\ calls' = [calls EXCEPT !.stop = @ + 1, !.runnerStop = @ + 1, !.renderStop = @ + 1,
                            !.eventsOff = @ + 1, !.worldClear = @ + 1, !.engineClear = @ + 1,
                            !.canvasRemove = IF canvas = "attached" THEN @ + 1 ELSE @]
  /\ UNCHANGED <<scene, bodiesMap, conveyorParams, hasStatic, listeners, timers, inTick, fired,
                 pairsFrom>>
  /\ UNCHANGED <<summary, otherVars>>

\* stop() of the returned handle
Stop ==
  /\ phase \in {"running", "stopped"}
  /\ ~inTick
  /\ calls.stop < MaxStops
  /\ phase' = "stopped"
  /\ frameRequested' = FALSE
  /\ renderRunning' = FALSE
  /\ hookOn' = FALSE
  /\ bodies' = {}
  /\ joints' = {}
  /\ vel' = EmptyMap
  /\ pairs' = {}
  /\ canvas' = "removed"
  /\ calls' = [calls EXCEPT !.stop = @ + 1, !.runnerStop = @ + 1, !.renderStop = @ + 1,
                            !.eventsOff = @ + 1, !.worldClear = @ + 1, !.engineClear = @ + 1,
                            !.canvasRemove = IF canvas = "attached" THEN @ + 1 ELSE @]
  /\ UNCHANGED <<scene, bodiesMap, conveyorParams, hasStatic, listeners, timers, inTick,
                 fired, thrown, pairsFrom>>
  /\ UNCHANGED <<summary, otherVars>>

NextBuild == StartBuild \/ Stop

SpecBuild == Init /\ [][NextBuild]_vars

-----------------------------------------------------------------------------
(* The run loop *)

\* scenes of the run loop: a ball, a second ball, a conveyor of speed 2, a
\* conveyor_belt without a speed, a plain static block, and launchers; the
\* last scene has no static object and gets the boundary walls
RunBall == Obj("A", "dynamic", Tri, FALSE, FALSE, FALSE, 0, Moving)
RunBall2 == Obj("E", "dynamic", Tri, FALSE, FALSE, FALSE, 0, ZeroVel)
RunBelt == Obj("B", "static", TriDup, FALSE, FALSE, TRUE, 2, ZeroVel)
RunBelt0 == Obj("C", "static", Tri, FALSE, TRUE, FALSE, 0, ZeroVel)
RunBlock == Obj("D", "static", Tri, FALSE, FALSE, FALSE, 0, ZeroVel)
LaunchAt(name) == Con("S", Anchor, <<Pt(1, 1)>>, name, <<Pt(7, 5)>>, "launcher", "spring", 0, 30)

RunScene(objs, cons) == [objects |-> objs, constraints |-> cons, layout |-> Layout(FALSE, 0, 0, 0, 0)]

RunScenes ==
  { RunScene(<<RunBall, RunBelt>>, <<LaunchAt("A")>>),
    RunScene(<<RunBall, RunBelt, RunBelt0>>, <<>>),
    RunScene(<<RunBall, RunBall2, RunBelt>>, <<>>),
    RunScene(<<RunBlock>>, <<LaunchAt("D"), LaunchAt(Anchor)>>),
    RunScene(<<RunBall>>, <<>>) }

StartRun == phase = "idle" /\ \E sc \in RunScenes : runSimulation(sc)

BodyOf(id) == CHOOSE b \in bodies : b.id = id
LabelOf(id) == BodyOf(id).label

\* the velocities a backend update may leave a body with
VelSamples ==
  {ZeroVel, Moving, [vx |-> 1, vy |-> 0, av |-> 0], [vx |-> 0, vy |-> 1, av |-> 1]}

Reverse(p) == <<p[2], p[1]>>

\* the pair lists the backend's collision detection may produce: pairs of two
\* bodies of the world, not both static, each pair once
PairLists ==
  LET ids == { b.id : b \in bodies }
      cand == { p \in ids \X ids : p[1] # p[2] /\ ~(BodyOf(p[1]).isStatic /\ BodyOf(p[2]).isStatic) }
  IN { ps \in SUBSET cand : Cardinality(ps) <= MaxPairs /\ \A p \in ps : Reverse(p) \notin ps }

\* of a pair with a conveyor: the conveyor body and the other body, as
\* onBeforeUpdate picks them
ConveyorOf(p) == IF LabelOf(p[1]) = "conveyor" THEN p[1] ELSE p[2]
OtherOf(p) == IF LabelOf(p[1]) = "conveyor" THEN p[2] ELSE p[1]

\* the pairs onBeforeUpdate acts on
ConveyorPairs(ps) ==
  { p \in ps : (LabelOf(p[1]) = "conveyor" \/ LabelOf(p[2]) = "conveyor")
               /\ ~BodyOf(OtherOf(p)).isStatic }

\* the speed lookup of onBeforeUpdate: the entry of bodiesMap that holds the
\* conveyor body gives the name, conveyorParams the speed; 0 when either is missing
LookupSpeed(cb) ==
  LET names == { n \in DOMAIN bodiesMap : bodiesMap[n] = cb }
  IN IF names = {} THEN 0
     ELSE LET name == CHOOSE n \in names : TRUE
          IN IF name \in DOMAIN conveyorParams THEN conveyorParams[name] ELSE 0

\* onBeforeUpdate with a bug: the speed is added as an impulse and the spin is kept
onBeforeUpdate_Impulse(v, ps) ==
  LET act == ConveyorPairs(ps)
      targets == { OtherOf(p) : p \in act }
      speeds(id) == { LookupSpeed(ConveyorOf(p)) : p \in { q \in act : OtherOf(q) = id } }
  IN { [id \in DOMAIN v |->
          IF id \in targets
          THEN [vx |-> v[id].vx + f[id], vy |-> v[id].vy, av |-> v[id].av] ELSE v[id]]
       : f \in { g \in [targets -> UNION { speeds(id) : id \in targets }] :
                   \A id \in targets : g[id] \in speeds(id) } }

\* onBeforeUpdate with a bug: the velocity is set to (speed, 0), which stops
\* the vertical motion
onBeforeUpdate_StopsVertical(v, ps) ==
  LET act == ConveyorPairs(ps)
      targets == { OtherOf(p) : p \in act }
      speeds(id) == { LookupSpeed(ConveyorOf(p)) : p \in { q \in act : OtherOf(q) = id } }
  IN { [id \in DOMAIN v |->
          IF id \in targets THEN [vx |-> f[id], vy |-> 0, av |-> 0] ELSE v[id]]
       : f \in { g \in [targets -> UNION { speeds(id) : id \in targets }] :
                   \A id \in targets : g[id] \in speeds(id) } }

\* onBeforeUpdate: the velocity maps the hook can leave, given the velocities
\* v and the pair list ps. The pairs are visited in list order, which the
\* backend decides: a body paired with several conveyors ends with the speed
\* of the one visited last.
onBeforeUpdate(v, ps) ==
  LET act == ConveyorPairs(ps)
      targets == { OtherOf(p) : p \in act }
      speeds(id) == { LookupSpeed(ConveyorOf(p)) : p \in { q \in act : OtherOf(q) = id } }
  IN { [id \in DOMAIN v |->
          IF id \in targets THEN [vx |-> f[id], vy |-> v[id].vy, av |-> 0] ELSE v[id]]
       : f \in { g \in [targets -> UNION { speeds(id) : id \in targets }] :
                   \A id \in targets : g[id] \in speeds(id) } }

\* TickBeforeUpdate with a bug: the collisions of the current positions are
\* detected before the hook runs, and the hook reads that list
TickBeforeUpdate_EnumeratesFirst ==
  /\ frameRequested
  /\ ~inTick
  /\ inTick' = TRUE
  /\ \E ps \in PairLists :
       /\ pairs' = ps
       /\ IF hookOn THEN vel' \in onBeforeUpdate(vel, ps) ELSE vel' = vel
  /\ pairsFrom' = "thisTick"
  /\ UNCHANGED <<phase, scene, bodies, joints, bodiesMap, conveyorParams, hasStatic,
                 frameRequested, renderRunning, hookOn, listeners, timers, canvas,
                 fired, thrown, calls>>
  /\ UNCHANGED <<summary, otherVars>>

\* A frame callback of the runner, first half: the next frame is requested,
\* and Engine.update emits beforeUpdate, which runs the hook while it is subscribed.
TickBeforeUpdate ==
  /\ frameRequested
  /\ ~inTick
  /\ inTick' = TRUE
  /\ IF hookOn THEN vel' \in onBeforeUpdate(vel, pairs) ELSE vel' = vel
  /\ pairsFrom' = IF pairsFrom = "thisTick" THEN "earlierTick" ELSE pairsFrom
  /\ UNCHANGED <<phase, scene, bodies, joints, bodiesMap, conveyorParams, hasStatic, pairs,
                 frameRequested, renderRunning, hookOn, listeners, timers, canvas,
                 fired, thrown, calls>>
  /\ UNCHANGED <<summary, otherVars>>

\* the pairs of a collisionStart event for which the listener of launcher l
\* schedules a removal
LauncherMatches(l, started) ==
  { p \in started :
      /\ LabelOf(p[1]) = "spring_launcher_reduced" \/ LabelOf(p[2]) = "spring_launcher_reduced"
      /\ l.secondBody # NoBody
      /\ p[1] = l.secondBody \/ p[2] = l.secondBody }

\* A frame callback, second half: the rest of Engine.update. The backend
\* integrates (velocities change), detects the collisions of the new
\* positions (a new pair list) and emits collisionStart with the pairs that
\* were not in contact before; each subscribed launcher listener sets one
\* timeout per matching pair.
TickEngineUpdate ==
  /\ inTick
  /\ inTick' = FALSE
  /\ \E newVel \in [DOMAIN vel -> VelSamples], newPairs \in PairLists :
       LET started == { p \in newPairs : p \notin pairs /\ Reverse(p) \notin pairs }
           scheduled(j) == Cardinality(UNION { LauncherMatches(l, started)
                                               : l \in { m \in listeners : m.con = j } })
       IN /\ \A j \in DOMAIN timers : timers[j] + scheduled(j) <= MaxTimers
          /\ vel' = newVel
          /\ pairs' = newPairs
          /\ timers' = [j \in DOMAIN timers |-> timers[j] + scheduled(j)]
  /\ pairsFrom' = "thisTick"
  /\ UNCHANGED <<phase, scene, bodies, joints, bodiesMap, conveyorParams, hasStatic,
                 frameRequested, renderRunning, hookOn, listeners, canvas, fired, thrown, calls>>
  /\ UNCHANGED <<summary, otherVars>>

\* TimerFire with a bug: the removal runs inside the collision callback, that
\* is before the update that detected the collision has returned
TimerFire_InsideTick(j) ==
  /\ inTick
  /\ j \in DOMAIN timers
  /\ timers[j] > 0
  /\ timers' = [timers EXCEPT ![j] = @ - 1]
  /\ fired' = fired \cup {j}
  /\ thrown' = thrown \cup {"removal timeout: ReferenceError"}
  /\ UNCHANGED <<phase, scene, bodies, joints, bodiesMap, conveyorParams, hasStatic, vel, pairs,
                 pairsFrom, frameRequested, renderRunning, hookOn, listeners, canvas, inTick, calls>>
  /\ UNCHANGED <<summary, otherVars>>

\* A removal timeout of launcher j runs: World.remove(engine.world, ...), where
\* World is bound nowhere in the module, so the callback raises a
\* ReferenceError before anything is removed.
TimerFire(j) ==
  /\ ~inTick
  /\ j \in DOMAIN timers
  /\ timers[j] > 0
  /\ timers' = [timers EXCEPT ![j] = @ - 1]
  /\ fired' = fired \cup {j}
  /\ thrown' = thrown \cup {"removal timeout: ReferenceError"}
  /\ UNCHANGED <<phase, scene, bodies, joints, bodiesMap, conveyorParams, hasStatic, vel, pairs,
                 pairsFrom, frameRequested, renderRunning, hookOn, listeners, canvas, inTick, calls>>
  /\ UNCHANGED <<summary, otherVars>>

Next ==
  \/ StartRun
  \/ TickBeforeUpdate
  \/ TickEngineUpdate
  \/ \E j \in 1..MaxItems : TimerFire(j)
  \/ Stop

Spec == Init /\ [][Next]_vars

-----------------------------------------------------------------------------
(* The run loop with a further start: once the handle is stopped, the caller
   may call runSimulation again, which returns a new handle *)

\* scenes of a further start; their names differ from those of the first scenes
NextScenes ==
  { RunScene(<<RunBall2, RunBelt0>>, <<>>),
    RunScene(<<RunBall2, RunBlock>>, <<>>) }

StartNext == phase = "stopped" /\ \E sc \in NextScenes : runSimulation(sc)

NextLife ==
  \/ StartRun
  \/ StartNext
  \/ TickBeforeUpdate
  \/ TickEngineUpdate
  \/ \E j \in 1..MaxItems : TimerFire(j)
  \/ Stop

SpecLife == Init /\ [][NextLife]_vars

-----------------------------------------------------------------------------
(* The callers of runSimulation: PhysicsInputBox and PlayPage. Each keeps the
   handle of its render surface in the ref runningSimulation; a handle is
   seen here only as running or stopped. *)

InitCallers ==
  /\ EngineIdle
  /\ PureIdle
  /\ AuthorIdle
  /\ StoreIdle
  /\ page \in {"input", "play"}
  /\ handles = <<>>
  /\ stored = 0
  /\ loading = FALSE
  /\ awaiting = 0
  /\ cached = FALSE
  \* the effect of the play page starts the fetch when it mounts
  /\ fetching = IF page = "play" THEN 1 ELSE 0
  /\ autoStart = 0
  /\ loaded = FALSE
  /\ simulating = FALSE
  /\ loads = 0

\* runningSimulation.current.stop() on the stored handle, if there is one
StopStored == IF stored # 0 THEN [handles EXCEPT ![stored] = "stopped"] ELSE handles

\* StopThenRun with a bug: the stored handle is overwritten without stop()
StopThenRun_NoStop(returns) ==
  IF returns
  THEN /\ Len(handles) < MaxHandles
       /\ handles' = Append(handles, "running")
       /\ stored' = Len(handles) + 1
  ELSE /\ handles' = handles
       /\ stored' = 0

\* The synchronous block shared by both components: stop and forget the
\* stored handle, call runSimulation, store what it returns. When
\* runSimulation throws, the catch clause is entered with null stored.
StopThenRun(returns) ==
  IF returns
  THEN /\ Len(handles) < MaxHandles
       /\ handles' = Append(StopStored, "running")
       /\ stored' = Len(handles) + 1
  ELSE /\ handles' = StopStored
       /\ stored' = 0

\* the start button of PhysicsInputBox: disabled={loading || interactionMode === 'select_pivot'}
StartEnabled == ~loading /\ interactionMode # "select_pivot"

\* a handler of the authoring component that leaves the authoring state alone
Handled(e) ==
  /\ lastEvent' = e
  /\ UNCHANGED <<interactionMode, pendingPivotSelection, constraintRelations, assignments,
                 lastImageContour, segmenting>>

\* PhysicsInputBox, start button with a cache hit: no await, the handler runs
\* in one piece (loading is set and reset within it)
ClickStartCached ==
  /\ page = "input" /\ StartEnabled /\ cached
  /\ \E returns \in BOOLEAN : StopThenRun(returns)
  /\ Handled("start")
  /\ UNCHANGED <<page, loading, awaiting, cached, fetching, autoStart, loaded, simulating, loads>>
  /\ UNCHANGED <<engineVars, pureVars, storeVars>>

\* start button with a cache miss: the handler is suspended at await simulate(...)
ClickStartUncached ==
  /\ page = "input" /\ StartEnabled /\ ~cached
  /\ awaiting < MaxHandles
  /\ loading' = TRUE
  /\ awaiting' = awaiting + 1
  /\ Handled("start")
  /\ UNCHANGED <<page, handles, stored, cached, fetching, autoStart, loaded, simulating, loads>>
  /\ UNCHANGED <<engineVars, pureVars, storeVars>>

\* the backend call returns: the cache is written (its key is that of the
\* request, which the scene may have left meanwhile), then the shared block
SimulateResolves ==
  /\ awaiting > 0
  /\ awaiting' = awaiting - 1
  /\ cached' \in BOOLEAN
  /\ loading' = FALSE
  /\ \E returns \in BOOLEAN : StopThenRun(returns)
  /\ Handled("simulate response")
  /\ UNCHANGED <<page, fetching, autoStart, loaded, simulating, loads>>
  /\ UNCHANGED <<engineVars, pureVars, storeVars>>

\* the backend call fails: catch and finally
SimulateRejects ==
  /\ awaiting > 0
  /\ awaiting' = awaiting - 1
  /\ loading' = FALSE
  /\ Handled("simulate response")
  /\ UNCHANGED <<page, handles, stored, cached, fetching, autoStart, loaded, simulating, loads>>
  /\ UNCHANGED <<engineVars, pureVars, storeVars>>

\* the scene data of a saved animation: objects and constraints, each of
\* which may be missing
SavedScenes ==
  { [objects |-> <<>>, constraints |-> <<>>],
    [objects |-> <<<<"ball">>>>, constraints |-> <<>>],
    [objects |-> <<<<"bob">>>>,
     constraints |-> <<<<handlePivotSelection("bob", Sq, Pt(9, 4))>>>>] }

\* loadAnimation(sceneData): the stored handle is stopped and forgotten; the
\* assignments and the constraint relations are replaced by those of the
\* scene data, where it has them; the cache is overwritten with the scene
\* data, which carries no key
loadAnimation ==
  /\ page = "input"
  /\ handles' = StopStored
  /\ stored' = 0
  /\ cached' = FALSE
  /\ \E sceneData \in SavedScenes :
       /\ assignments' = IF sceneData.objects # <<>> THEN sceneData.objects[1] ELSE assignments
       /\ constraintRelations' =
            IF sceneData.constraints # <<>> THEN sceneData.constraints[1] ELSE constraintRelations
  /\ lastEvent' = "load"
  /\ UNCHANGED <<interactionMode, pendingPivotSelection, lastImageContour, segmenting>>
  /\ UNCHANGED <<page, loading, awaiting, fetching, autoStart, loaded, simulating, loads>>
  /\ UNCHANGED <<engineVars, pureVars, storeVars>>

\* the user changes a contour or a role: the cache key no longer matches
EditAssignments ==
  /\ page = "input" /\ cached
  /\ cached' = FALSE
  /\ UNCHANGED <<page, handles, stored, loading, awaiting, fetching, autoStart, loaded,
                 simulating, loads>>
  /\ UNCHANGED <<engineVars, pureVars, authorVars, storeVars>>

\* PlayPage: the fetch returns code 0: the animation is set and the start is
\* scheduled one second later
PlayFetchResolves ==
  /\ fetching > 0
  /\ fetching' = fetching - 1
  /\ loaded' = TRUE
  /\ autoStart' = autoStart + 1
  /\ UNCHANGED <<page, handles, stored, loading, awaiting, cached, simulating, loads>>
  /\ UNCHANGED <<engineVars, pureVars, authorVars, storeVars>>

\* the fetch fails or returns an error code
PlayFetchFails ==
  /\ fetching > 0
  /\ fetching' = fetching - 1
  /\ UNCHANGED <<page, handles, stored, loading, awaiting, cached, autoStart, loaded,
                 simulating, loads>>
  /\ UNCHANGED <<engineVars, pureVars, authorVars, storeVars>>

\* handleStartSimulate of the play page, entered with scene data or without
PlayStart(hasScene) ==
  IF hasScene
  THEN /\ simulating' = TRUE
       /\ \E returns \in BOOLEAN : StopThenRun(returns)
  ELSE UNCHANGED <<simulating, handles, stored>>

\* the timeout of the delayed start fires
PlayAutoStart ==
  /\ autoStart > 0
  /\ autoStart' = autoStart - 1
  /\ \E hasScene \in BOOLEAN : PlayStart(hasScene)
  /\ UNCHANGED <<page, loading, awaiting, cached, fetching, loaded, loads>>
  /\ UNCHANGED <<engineVars, pureVars, authorVars, storeVars>>

\* the play button, enabled while simulating is false
PlayClick ==
  /\ page = "play" /\ loaded /\ ~simulating
  /\ \E hasScene \in BOOLEAN : PlayStart(hasScene)
  /\ UNCHANGED <<page, loading, awaiting, cached, fetching, autoStart, loaded, loads>>
  /\ UNCHANGED <<engineVars, pureVars, authorVars, storeVars>>

\* the route parameter changes: the effect runs again and fetches
ShareCodeChanges ==
  /\ page = "play" /\ loads < MaxLoads
  /\ loads' = loads + 1
  /\ fetching' = fetching + 1
  /\ UNCHANGED <<page, handles, stored, loading, awaiting, cached, autoStart, loaded, simulating>>
  /\ UNCHANGED <<engineVars, pureVars, authorVars, storeVars>>

NextCallers ==
  \/ ClickStartCached
  \/ ClickStartUncached
  \/ SimulateResolves
  \/ SimulateRejects
  \/ loadAnimation
  \/ EditAssignments
  \/ PlayFetchResolves
  \/ PlayFetchFails
  \/ PlayAutoStart
  \/ PlayClick
  \/ ShareCodeChanges

SpecCallers == InitCallers /\ [][NextCallers]_vars

-----------------------------------------------------------------------------
(* The authoring flow of PhysicsInputBox: a segmentation click produces a
   contour, the contour is assigned to a pending element, and an element
   that needs it then has its pivot or its two endpoints clicked. A contour
   is seen only as present or absent; click positions are fixed points. *)

MaxAssignments == 2   \* assignments the user makes on one image
MaxSegments == 1      \* segmentation requests in flight at once
MaxRelations == 1     \* constraint relations the user builds on one image
MaxStarts == 1        \* handles and requests alive when the start button is clicked

\* the elements the backend proposes: rigid_body needs no interaction unless
\* the backend flags it
Elem(name, element_type, needs_pivot, needs_second_pivot) ==
  [name |-> name, element_type |-> element_type,
   needs_pivot |-> needs_pivot, needs_second_pivot |-> needs_second_pivot]

PendingElements ==
  { Elem("ball", "rigid_body", FALSE, FALSE),
    Elem("bob", "pendulum_bob", FALSE, FALSE),
    Elem("spring", "spring_constraint", FALSE, FALSE),
    Elem("launcher", "spring_launcher", FALSE, FALSE),
    Elem("rod", "rigid_body", TRUE, FALSE) }

\* SPECIAL_ELEMENT_TYPES: the types that need a pivot, and those that need two
NeedsPivotTypes == {"pendulum_bob", "spring_constraint", "spring_launcher"}
NeedsSecondPivotTypes == {"spring_constraint", "spring_launcher"}

elementNeedsSpecialInteraction(elem) ==
  elem.needs_pivot \/ elem.element_type \in NeedsPivotTypes

elementNeedsSecondPivot(elem) ==
  elem.needs_second_pivot \/ elem.element_type \in NeedsSecondPivotTypes

FirstClick == Pt(4, 1)
SecondClick == Pt(4, 6)
PivotModes == {"select_pivot", "select_first_endpoint", "select_second_endpoint"}

\* where a click lands: inside the contour of an assignment, or nowhere
ClickTargets == { assignments[i] : i \in 1..Len(assignments) } \cup {Anchor}

\* handleMouseUp in segment mode, up to its await: a segmentation request
SegmentRequest ==
  /\ page = "input" /\ interactionMode = "segment"
  /\ segmenting < MaxSegments
  /\ segmenting' = segmenting + 1
  /\ loading' = TRUE
  /\ lastEvent' = "segment request"
  /\ UNCHANGED <<interactionMode, pendingPivotSelection, constraintRelations, assignments,
                 lastImageContour>>
  /\ UNCHANGED <<page, handles, stored, awaiting, cached, fetching, autoStart, loaded,
                 simulating, loads>>
  /\ UNCHANGED <<engineVars, pureVars, storeVars>>

\* handleMouseUp after its await: the response brings a contour, an empty
\* contour, or an error; whatever the mode has become since
SegmentResponse ==
  /\ segmenting > 0
  /\ segmenting' = segmenting - 1
  /\ \E outcome \in {"contour", "empty", "error"} :
       lastImageContour' = CASE outcome = "contour" -> TRUE
                             [] outcome = "empty" -> FALSE
                             [] OTHER -> lastImageContour
  /\ loading' = FALSE
  /\ lastEvent' = "segment response"
  /\ UNCHANGED <<interactionMode, pendingPivotSelection, constraintRelations, assignments>>
  /\ UNCHANGED <<page, handles, stored, awaiting, cached, fetching, autoStart, loaded,
                 simulating, loads>>
  /\ UNCHANGED <<engineVars, pureVars, storeVars>>

\* assignCurrentSelection(elem, idx): offered while there is a contour
assignCurrentSelection(elem) ==
  /\ page = "input" /\ lastImageContour
  /\ Len(assignments) < MaxAssignments
  /\ assignments' = Append(assignments, elem.name)
  /\ lastImageContour' = FALSE
  /\ IF elementNeedsSpecialInteraction(elem)
       THEN /\ pendingPivotSelection' =
                 [element |-> elem, needsSecondPoint |-> elementNeedsSecondPivot(elem),
                  firstPoint |-> <<>>]
            /\ interactionMode' = IF elementNeedsSecondPivot(elem)
                                    THEN "select_first_endpoint" ELSE "select_pivot"
       ELSE UNCHANGED <<interactionMode, pendingPivotSelection>>
  /\ cached' = FALSE
  /\ lastEvent' = "assign"
  /\ UNCHANGED <<constraintRelations, segmenting>>
  /\ UNCHANGED <<page, handles, stored, loading, awaiting, fetching, autoStart, loaded,
                 simulating, loads>>
  /\ UNCHANGED <<engineVars, pureVars, storeVars>>

\* handlePivotSelection as handleMouseUp calls it: isSpring is false in mode
\* select_pivot and true in mode select_first_endpoint
PivotSelection(isSpring, pivotName) ==
  IF pendingPivotSelection = NoSelection
    THEN UNCHANGED <<pendingPivotSelection, interactionMode, constraintRelations>>
    ELSE IF pendingPivotSelection.needsSecondPoint \/ isSpring
      THEN /\ pendingPivotSelection' =
                [pendingPivotSelection EXCEPT
                   !.firstPoint = <<[bodyName |-> pivotName, p |-> FirstClick]>>]
           /\ interactionMode' = "select_second_endpoint"
           /\ UNCHANGED constraintRelations
      ELSE /\ constraintRelations' =
                Append(constraintRelations,
                       [handlePivotSelection(pendingPivotSelection.element.name, Sq, FirstClick)
                          EXCEPT !.pivotName = pivotName])
           /\ pendingPivotSelection' = NoSelection
           /\ interactionMode' = "segment"

\* handleMouseUp in mode select_pivot or select_first_endpoint
PivotClick ==
  /\ page = "input" /\ interactionMode \in {"select_pivot", "select_first_endpoint"}
  /\ Len(constraintRelations) < MaxRelations
  /\ \E pivotName \in ClickTargets :
       PivotSelection(interactionMode = "select_first_endpoint", pivotName)
  /\ lastEvent' = "pivot click"
  /\ UNCHANGED <<assignments, lastImageContour, segmenting>>
  /\ UNCHANGED callerVars
  /\ UNCHANGED <<engineVars, pureVars, storeVars>>

\* handleSecondPivotSelection
SecondPivotSelection(secondPivotName) ==
  IF pendingPivotSelection = NoSelection \/ pendingPivotSelection.firstPoint = <<>>
    THEN UNCHANGED <<pendingPivotSelection, interactionMode, constraintRelations>>
    ELSE LET element == pendingPivotSelection.element
             firstPoint == pendingPivotSelection.firstPoint[1]
             springType == IF element.element_type = "spring_launcher"
                             THEN "launcher" ELSE "constraint"
         IN /\ constraintRelations' =
                 Append(constraintRelations,
                        Con(element.name, firstPoint.bodyName, <<firstPoint.p>>,
                            secondPivotName, <<SecondClick>>, springType, "spring", 0,
                            SqrtOfSquare(Dist2(firstPoint.p, SecondClick))))
            /\ pendingPivotSelection' = NoSelection
            /\ interactionMode' = "segment"

\* handleMouseUp in mode select_second_endpoint
SecondEndpointClick ==
  /\ page = "input" /\ interactionMode = "select_second_endpoint"
  /\ Len(constraintRelations) < MaxRelations
  /\ \E secondPivotName \in ClickTargets : SecondPivotSelection(secondPivotName)
  /\ lastEvent' = "second endpoint click"
  /\ UNCHANGED <<assignments, lastImageContour, segmenting>>
  /\ UNCHANGED callerVars
  /\ UNCHANGED <<engineVars, pureVars, storeVars>>

\* a cancel that forgets the selection and keeps the mode
cancelPivotSelection_KeepsMode ==
  /\ page = "input"
  /\ interactionMode \in PivotModes /\ pendingPivotSelection # NoSelection
  /\ pendingPivotSelection' = NoSelection
  /\ lastEvent' = "cancel"
  /\ UNCHANGED <<interactionMode, constraintRelations, assignments, lastImageContour, segmenting>>
  /\ UNCHANGED callerVars
  /\ UNCHANGED <<engineVars, pureVars, storeVars>>

\* cancelPivotSelection: its button is shown in the three selection modes
\* while a selection is pending
cancelPivotSelection ==
  /\ page = "input"
  /\ interactionMode \in PivotModes /\ pendingPivotSelection # NoSelection
  /\ pendingPivotSelection' = NoSelection
  /\ interactionMode' = "segment"
  /\ lastEvent' = "cancel"
  /\ UNCHANGED <<constraintRelations, assignments, lastImageContour, segmenting>>
  /\ UNCHANGED callerVars
  /\ UNCHANGED <<engineVars, pureVars, storeVars>>

\* the checks of handleStartSimulate ahead of the cache lookup: there are
\* assignments, and no pivot selection is pending in mode select_pivot
StartAccepted ==
  /\ assignments # <<>>
  /\ ~(interactionMode = "select_pivot" /\ pendingPivotSelection # NoSelection)

StartCached == StartAccepted /\ Len(handles) < MaxStarts /\ ClickStartCached

StartUncached == StartAccepted /\ Len(handles) + awaiting < MaxStarts /\ ClickStartUncached

\* a failed check throws: the error is shown, loading goes back to false
StartRejected ==
  /\ page = "input" /\ StartEnabled
  /\ ~StartAccepted
  /\ Handled("start rejected")
  /\ UNCHANGED callerVars
  /\ UNCHANGED <<engineVars, pureVars, storeVars>>

InitAuthor ==
  /\ EngineIdle
  /\ PureIdle
  /\ AuthorIdle
  /\ StoreIdle
  /\ page = "input"
  /\ handles = <<>>
  /\ stored = 0
  /\ loading = FALSE
  /\ awaiting = 0
  /\ cached = FALSE
  /\ fetching = 0
  /\ autoStart = 0
  /\ loaded = FALSE
  /\ simulating = 0
  /\ loads = 0

NextAuthor ==
  \/ SegmentRequest
  \/ SegmentResponse
  \/ \E elem \in PendingElements : assignCurrentSelection(elem)
  \/ PivotClick
  \/ SecondEndpointClick
  \/ cancelPivotSelection
  \/ StartCached
  \/ StartUncached
  \/ StartRejected
  \/ SimulateResolves
  \/ SimulateRejects
  \/ loadAnimation

SpecAuthor == InitAuthor /\ [][NextAuthor]_vars

-----------------------------------------------------------------------------
(* The auth store and the two ways the frontend calls the backend: the axios
   instance with its interceptors (authApi), and fetch with the token of the
   store in the Authorization header (the animation, like and save calls). *)

MaxRequests == 2   \* requests in flight at once

Tokens == {1, 2}
Users == {1, 2}
Statuses == {200, 401, 500}

\* the state a set({...}) of the store leaves
StoreSet(t, u, l) == token' = t /\ user' = u /\ isLoggedIn' = l

login(t, u) ==
  /\ StoreSet(t, u, TRUE)
  /\ lastResponse' = [via |-> "login"]
  /\ UNCHANGED requests
  /\ UNCHANGED <<engineVars, callerVars, pureVars, authorVars>>

logout ==
  /\ StoreSet(NoToken, NoUser, FALSE)
  /\ lastResponse' = [via |-> "logout"]
  /\ UNCHANGED requests
  /\ UNCHANGED <<engineVars, callerVars, pureVars, authorVars>>

updateUser(u) ==
  /\ user' = u
  /\ lastResponse' = [via |-> "updateUser"]
  /\ UNCHANGED <<token, isLoggedIn, requests>>
  /\ UNCHANGED <<engineVars, callerVars, pureVars, authorVars>>

\* a request through the axios instance: the request interceptor adds the
\* token of the store when there is one
AxiosRequest ==
  /\ Cardinality(requests) < MaxRequests
  /\ requests' = requests \cup {[via |-> "axios", token |-> token]}
  /\ lastResponse' = [via |-> "request"]
  /\ UNCHANGED <<token, user, isLoggedIn>>
  /\ UNCHANGED <<engineVars, callerVars, pureVars, authorVars>>

\* a fetch of a component: sent when the store has a token, which it carries
FetchRequest ==
  /\ token # NoToken
  /\ Cardinality(requests) < MaxRequests
  /\ requests' = requests \cup {[via |-> "fetch", token |-> token]}
  /\ lastResponse' = [via |-> "request"]
  /\ UNCHANGED <<token, user, isLoggedIn>>
  /\ UNCHANGED <<engineVars, callerVars, pureVars, authorVars>>

\* the response interceptor of the axios instance: a response passes, an
\* error with status 401 logs out, and every error is rejected to the caller
AxiosResponse(r, status) ==
  /\ r \in requests /\ r.via = "axios"
  /\ requests' = requests \ {r}
  /\ IF status = 401
       THEN StoreSet(NoToken, NoUser, FALSE)
       ELSE UNCHANGED <<token, user, isLoggedIn>>
  /\ lastResponse' = [via |-> "axios", status |-> status, token |-> r.token,
                      outcome |-> IF status = 200 THEN "resolved" ELSE "rejected"]
  /\ UNCHANGED <<engineVars, callerVars, pureVars, authorVars>>

\* the response to a fetch: the promise resolves whatever the status, the
\* component reads the body, and the store is not involved
FetchResponse(r, status) ==
  /\ r \in requests /\ r.via = "fetch"
  /\ requests' = requests \ {r}
  /\ lastResponse' = [via |-> "fetch", status |-> status, token |-> r.token,
                      outcome |-> "resolved"]
  /\ UNCHANGED <<token, user, isLoggedIn>>
  /\ UNCHANGED <<engineVars, callerVars, pureVars, authorVars>>

InitStore == EngineIdle /\ CallersIdle /\ PureIdle /\ AuthorIdle /\ StoreIdle

NextStore ==
  \/ \E t \in Tokens, u \in Users : login(t, u)
  \/ logout
  \/ \E u \in Users : updateUser(u)
  \/ AxiosRequest
  \/ FetchRequest
  \/ \E r \in requests, status \in Statuses : AxiosResponse(r, status)
  \/ \E r \in requests, status \in Statuses : FetchResponse(r, status)

SpecStore == InitStore /\ [][NextStore]_vars

-----------------------------------------------------------------------------
(* The geometry helpers applied on their own: polygonArea,
   decomposeToTriangleFan and preprocessContour of the engine module,
   isPointInContour of PhysicsInputBox *)

RECURSIVE RayCast(_, _, _, _)
\* the loop of isPointInContour from index i on, j the index before i (the
\* last index for the first): inside is toggled for every edge that the
\* horizontal ray from the point crosses. The quotient of the source is
\* compared after multiplying by yj - yi, which is not 0 where it is evaluated.
RayCast(point, contourPoints, i, inside) ==
  IF i > Len(contourPoints) THEN inside
  ELSE LET n == Len(contourPoints)
           j == IF i = 1 THEN n ELSE i - 1
           xi == contourPoints[i].x
           yi == contourPoints[i].y
           xj == contourPoints[j].x
           yj == contourPoints[j].y
           left == (point.x - xi) * (yj - yi)
           right == (xj - xi) * (point.y - yi)
           toggles == /\ (yi > point.y) # (yj > point.y)
                      /\ IF yj - yi > 0 THEN left < right ELSE left > right
       IN RayCast(point, contourPoints, i + 1, IF toggles THEN ~inside ELSE inside)

\* isPointInContour with a bug: the loop leaves out the edge from the last
\* point back to the first
isPointInContour_NoClosingEdge(point, contourPoints) ==
  IF Len(contourPoints) < 3 THEN FALSE
  ELSE RayCast(point, contourPoints, 2, FALSE)

isPointInContour(point, contourPoints) ==
  IF Len(contourPoints) < 3 THEN FALSE
  ELSE RayCast(point, contourPoints, 1, FALSE)

\* the points of the explored sequences: the corners of a square of side 2,
\* a point within one unit of a corner, and two far points
PointMenu == {Pt(0, 0), Pt(2, 0), Pt(2, 2), Pt(0, 2), Pt(1, 0), Pt(8, 0), Pt(0, 8)}

\* the explored query points: inside, outside and on the border of the square
QueryMenu ==
  {Pt(x, y) : x \in {-1, 1, 3}, y \in {-1, 1, 3}} \cup {Pt(1, 0), Pt(0, 1), Pt(1, 2), Pt(4, 2)}

InitPure ==
  /\ EngineIdle
  /\ CallersIdle
  /\ AuthorIdle
  /\ StoreIdle
  /\ \E n \in 0..MaxLen : arg \in [1..n -> PointMenu]
  /\ res = NoResult

ApplyPolygonArea ==
  /\ res' = [fn |-> "polygonArea", value |-> polygonArea(arg)]
  /\ UNCHANGED <<arg, engineVars, callerVars, authorVars, storeVars>>

ApplyDecomposeToTriangleFan ==
  /\ res' = [fn |-> "decomposeToTriangleFan", value |-> decomposeToTriangleFan(arg)]
  /\ UNCHANGED <<arg, engineVars, callerVars, authorVars, storeVars>>

ApplyPreprocessContour ==
  /\ res' = [fn |-> "preprocessContour", value |-> preprocessContour(arg)]
  /\ UNCHANGED <<arg, engineVars, callerVars, authorVars, storeVars>>

ApplyIsPointInContour ==
  /\ \E q \in QueryMenu :
       res' = [fn |-> "isPointInContour", point |-> q, value |-> isPointInContour(q, arg)]
  /\ UNCHANGED <<arg, engineVars, callerVars, authorVars, storeVars>>

NextPure ==
  \/ ApplyPolygonArea
  \/ ApplyDecomposeToTriangleFan
  \/ ApplyPreprocessContour
  \/ ApplyIsPointInContour

SpecPure == InitPure /\ [][NextPure]_vars

-----------------------------------------------------------------------------
(* Vocabulary of the properties *)

Objects == scene.objects
Specs == scene.constraints
Started == phase = "running"

\* the bodies that object i put into the world
BodiesOfObject(i) == { b \in bodies : b.id[1] \in {"obj", "tri"} /\ b.id[2] = i }
HasJoint(j) == \E jt \in joints : jt.id = <<"con", j>>
JointOf(j) == CHOOSE jt \in joints : jt.id = <<"con", j>>
HasSlug(j) == \E b \in bodies : b.id = <<"slug", j>>
Walls == { b \in bodies : b.strategy = "wall" }

Resolves(name) == name \in DOMAIN bodiesMap
\* the spec carries a second endpoint and a spring kind
TwoEndpoint(c) == c.springType \in {"constraint", "launcher"} /\ c.secondPivotPoint # NoPoint

\* q is p scaled by (sx, sy), to the nearest integer
IsScaled(q, p, L) ==
  /\ 2 * (q.x * ScaleX(L).d - p.x * ScaleX(L).n) <= ScaleX(L).d
  /\ 2 * (p.x * ScaleX(L).n - q.x * ScaleX(L).d) <= ScaleX(L).d
  /\ 2 * (q.y * ScaleY(L).d - p.y * ScaleY(L).n) <= ScaleY(L).d
  /\ 2 * (p.y * ScaleY(L).n - q.y * ScaleY(L).d) <= ScaleY(L).d

\* end A (resp. B) of the joint is the fixed world point p of the spec, scaled
FixedAtA(jt, p) ==
  jt.bodyA = NoBody /\ jt.pointA # NoPoint /\ IsScaled(jt.pointA[1], PointOrZero(p), scene.layout)
FixedAtB(jt, p) ==
  jt.bodyB = NoBody /\ jt.pointB # NoPoint /\ IsScaled(jt.pointB[1], PointOrZero(p), scene.layout)

\* the spec is one that start() realizes when no pivot is considered: it
\* carries two spring endpoints, or its subject is in the name-to-body map
SubjectAllows(c) == TwoEndpoint(c) \/ Resolves(c.bodyName)

-----------------------------------------------------------------------------
(* C1 *)

\* C1 as stated: start() never throws, and every spec whose pivotName (for
\* spring kinds also secondPivotName) is no key of the name-to-body map is
\* realized with that endpoint a fixed world point at the scaled coordinates.
C1_AsStated ==
  /\ phase # "failed"
  /\ Started =>
       \A j \in 1..Len(Specs) :
         LET c == Specs[j] IN
         /\ (~Resolves(c.pivotName) /\ SubjectAllows(c)) =>
              (HasJoint(j) /\ FixedAtA(JointOf(j), c.pivotPoint))
         /\ (TwoEndpoint(c) /\ ~Resolves(c.secondPivotName)) =>
              (HasJoint(j) /\ FixedAtB(JointOf(j), c.secondPivotPoint))

\* C1, amended: start() never throws; a spec whose pivotName is no key of the
\* name-to-body map is realized with its first endpoint a fixed world point at
\* the scaled pivot coordinates; a spring_constraint whose secondPivotName is no
\* key has its second endpoint fixed at the scaled second point; the constraint
\* of a spring_launcher ends at its launch slug whether or not secondPivotName
\* resolves. The only specs dropped are single-pivot specs with an unresolved subject.
C1_UnresolvedPivotIsWorldAnchor ==
  /\ phase # "failed"
  /\ Started =>
       \A j \in 1..Len(Specs) :
         LET c == Specs[j] IN
         /\ HasJoint(j) <=> SubjectAllows(c)
         /\ (~Resolves(c.pivotName) /\ SubjectAllows(c)) =>
              FixedAtA(JointOf(j), c.pivotPoint)
         /\ (TwoEndpoint(c) /\ c.springType = "constraint" /\ ~Resolves(c.secondPivotName)) =>
              FixedAtB(JointOf(j), c.secondPivotPoint)
         /\ (TwoEndpoint(c) /\ c.springType = "launcher") =>
              (HasSlug(j) /\ JointOf(j).bodyB = <<"slug", j>> /\ JointOf(j).pointB = NoPoint)

\* a started scene, scaled by 1/2, with a realized pendulum and a realized
\* spring whose endpoints name no object
C1_Witness ==
  /\ Started
  /\ scene.layout.natW = 1280
  /\ \E j \in 1..Len(Specs) :
       ~TwoEndpoint(Specs[j]) /\ ~Resolves(Specs[j].pivotName) /\ HasJoint(j)
  /\ \E j \in 1..Len(Specs) :
       /\ TwoEndpoint(Specs[j]) /\ Specs[j].springType = "constraint"
       /\ ~Resolves(Specs[j].pivotName) /\ ~Resolves(Specs[j].secondPivotName) /\ HasJoint(j)

-----------------------------------------------------------------------------
(* C2 *)

\* C2 as stated: a spec of any kind whose bodyName is no key of the
\* name-to-body map adds no constraint and no body, start() does not throw,
\* and the other specs are processed.
C2_AsStated ==
  /\ phase # "failed"
  /\ Started =>
       \A j \in 1..Len(Specs) :
         IF Resolves(Specs[j].bodyName)
         THEN HasJoint(j)
         ELSE ~HasJoint(j) /\ ~HasSlug(j)

\* C2, amended: a spec on the single-pivot path (no spring kind, or no second
\* endpoint) whose bodyName is no key of the name-to-body map adds no
\* constraint and no body; start() does not throw and processes every other
\* spec: a single-pivot spec with a resolved subject adds its constraint, and a
\* two-endpoint spring spec adds its constraint (and, for a launcher, its slug)
\* whatever its bodyName, which is never looked up.
C2_UnresolvedSubjectSkipsSinglePivot ==
  /\ phase # "failed"
  /\ Started =>
       \A j \in 1..Len(Specs) :
         LET c == Specs[j] IN
         /\ (~TwoEndpoint(c) /\ ~Resolves(c.bodyName)) => (~HasJoint(j) /\ ~HasSlug(j))
         /\ (~TwoEndpoint(c) /\ Resolves(c.bodyName)) => (HasJoint(j) /\ ~HasSlug(j))
         /\ TwoEndpoint(c) => (HasJoint(j) /\ (HasSlug(j) <=> c.springType = "launcher"))

\* a started scene whose first spec is skipped for its subject and whose
\* second spec is realized
C2_Witness ==
  /\ Started
  /\ Len(Specs) >= 2
  /\ ~TwoEndpoint(Specs[1]) /\ ~Resolves(Specs[1].bodyName) /\ ~HasJoint(1)
  /\ ~TwoEndpoint(Specs[2]) /\ HasJoint(2)

-----------------------------------------------------------------------------
(* C3 *)

\* C3: after the body pass, every named object that put a body into the world
\* is a key of the name-to-body map, bound to a body of an object of that name.
C3_EveryBuiltObjectRegistered ==
  Started =>
    \A i \in 1..Len(Objects) :
      (Objects[i].name # "" /\ BodiesOfObject(i) # {}) =>
        /\ Resolves(Objects[i].name)
        /\ \E k \in 1..Len(Objects) :
             /\ Objects[k].name = Objects[i].name
             /\ bodiesMap[Objects[i].name] \in { b.id : b \in BodiesOfObject(k) }

-----------------------------------------------------------------------------
(* C4 *)

ScaledContour(obj) ==
  [k \in 1..Len(obj.contour) |-> ScalePoint(obj.contour[k], scene.layout)]

\* C4: an object whose scaled contour keeps fewer than 3 points under
\* duplicate removal gets no body, and start() does not throw.
C4_DegenerateContourBuildsNothing ==
  /\ phase # "failed"
  /\ Started =>
       \A i \in 1..Len(Objects) :
         Len(DedupAll(ScaledContour(Objects[i]))) < 3 => BodiesOfObject(i) = {}

-----------------------------------------------------------------------------
(* C5 *)

\* the thickness t is max(10, floor(2% of m))
IsWallThickness(t, m) ==
  /\ t >= 10
  /\ m < 550 => t = 10
  /\ m >= 500 => (50 * t <= m /\ m < 50 * (t + 1))

WallsAsSpecified ==
  /\ Cardinality(Walls) = 4
  /\ \A b \in Walls :
       /\ b.isStatic
       /\ IsWallThickness(Min(b.geom[3], b.geom[4]),
                          Min(CanvasWidth(scene.layout), CanvasHeight(scene.layout)))

\* C5 as stated: the four walls are in the world exactly when no object of
\* the scene description has role static.
C5_AsStated ==
  Started =>
    IF \E i \in 1..Len(Objects) : Objects[i].role = "static"
    THEN Walls = {}
    ELSE WallsAsSpecified

\* C5, amended: the four walls are in the world exactly when no object of the
\* scene description has role static together with a contour of at least 3
\* points (a static object that is skipped for its contour does not count);
\* their thickness is max(10, floor(2% of min(width, height))).
C5_WallsIffNoStaticWithContour ==
  Started =>
    IF \E i \in 1..Len(Objects) : Objects[i].role = "static" /\ Len(Objects[i].contour) >= 3
    THEN Walls = {}
    ELSE WallsAsSpecified

\* walls thicker than the minimum, in a scene that holds a static object
C5_Witness ==
  /\ Started
  /\ \E i \in 1..Len(Objects) : Objects[i].role = "static"
  /\ \E b \in Walls : Min(b.geom[3], b.geom[4]) > 10

-----------------------------------------------------------------------------
(* C6 *)

\* C6: once stop() has returned, no step is a frame callback of that
\* simulation: neither the beforeUpdate emission (with the conveyor hook) nor
\* the backend update runs, so no tick is in progress and neither the
\* velocities nor the pair list change.
C6_NoTickAfterStop ==
  [][phase = "stopped" => (~inTick' /\ vel' = vel /\ pairs' = pairs)]_vars

\* stopped while removal timeouts were pending, hence after ticks with collisions
C6_Witness ==
  /\ phase = "stopped"
  /\ ~frameRequested
  /\ \E j \in DOMAIN timers : timers[j] > 0

-----------------------------------------------------------------------------
(* C7 *)

\* C7: after stop() nothing that start() registered is left: no beforeUpdate
\* hook, no collisionStart listener, no pending removal timeout; the world is
\* empty and the canvas detached.
C7_StopLeavesNoCallback ==
  phase = "stopped" =>
    /\ ~hookOn
    /\ listeners = {}
    /\ \A j \in DOMAIN timers : timers[j] = 0
    /\ bodies = {} /\ joints = {}
    /\ canvas = "removed"

-----------------------------------------------------------------------------
(* C8 *)

\* C8 as stated: the cleanup of stop() (halting runner and renderer,
\* deregistering the hook, clearing the world, removing the canvas) is
\* executed by the first call only.
C8_AsStated ==
  /\ "stop" \notin thrown
  /\ calls.runnerStop <= 1 /\ calls.renderStop <= 1 /\ calls.eventsOff <= 1
  /\ calls.worldClear <= 1 /\ calls.engineClear <= 1 /\ calls.canvasRemove <= 1

\* C8, amended: a further stop() on a stopped handle does not throw and
\* leaves the state as the first call left it (runner and renderer halted,
\* hook deregistered, world and pair list empty, canvas removed); the canvas
\* is removed once only, while the halting, deregistering and clearing calls
\* are executed again, without effect.
C8_SecondStopChangesNothing ==
  [][(phase = "stopped" /\ calls'.stop = calls.stop + 1) =>
       /\ UNCHANGED <<phase, scene, bodies, joints, bodiesMap, conveyorParams, hasStatic, vel,
                      pairs, pairsFrom, frameRequested, renderRunning, hookOn, listeners,
                      timers, canvas, inTick, fired, thrown>>
       /\ calls'.canvasRemove = calls.canvasRemove
       /\ calls'.runnerStop = calls.runnerStop + 1
       /\ calls'.worldClear = calls.worldClear + 1]_vars

\* stop() has been called twice
C8_Witness == phase = "stopped" /\ calls.stop = 2 /\ calls.canvasRemove = 1

-----------------------------------------------------------------------------
(* C9 *)

\* C9: once the delayed removal of a launcher has run, neither its slug nor
\* its constraint is in the world.
C9_SlugRemovedAfterDelay ==
  \A j \in fired : ~HasSlug(j) /\ ~HasJoint(j)

-----------------------------------------------------------------------------
(* C10 *)

\* the speed configured for the conveyor body id in the scene description
ConfiguredSpeed(id) == IF Objects[id[2]].hasSpeed THEN Objects[id[2]].speed ELSE 0

IsConveyor(id) == \E b \in bodies : b.id = id /\ b.label = "conveyor"
IsDynamic(id) == \E b \in bodies : b.id = id /\ ~b.isStatic

\* the conveyors body id is paired with in the pair list
ConveyorsTouching(id) ==
  { c \in { b.id : b \in bodies } :
      IsConveyor(c) /\ (<<c, id>> \in pairs \/ <<id, c>> \in pairs) }

\* C10 as stated: when a tick is over, every non-static body in contact with
\* a conveyor of speed v has horizontal velocity v and angular velocity 0.
C10_AsStated ==
  (Started /\ ~inTick) =>
    \A id \in DOMAIN vel : \A c \in ConveyorsTouching(id) :
      vel[id].vx = ConfiguredSpeed(c) /\ vel[id].av = 0

\* C10, amended: in every tick, when the beforeUpdate hook has run and the
\* backend has not yet integrated, every non-static body that the pair list
\* (left by the previous tick's update) pairs with a conveyor has angular
\* velocity exactly 0 and horizontal velocity exactly the configured speed of
\* a conveyor it is paired with (of the only one, when there is one),
\* whatever the values before; the integration of the same tick may change
\* them again, and a contact that begins in a tick is clamped from the next tick on.
C10_HookClampsPairedBodies ==
  (Started /\ inTick) =>
    \A id \in DOMAIN vel :
      ConveyorsTouching(id) # {} =>
        /\ vel[id].av = 0
        /\ vel[id].vx \in { ConfiguredSpeed(c) : c \in ConveyorsTouching(id) }

\* between hook and integration: a body on the conveyor of speed 2, moving
\* vertically, clamped to 2; and another body, not on it, still spinning
C10_Witness ==
  /\ Started /\ inTick
  /\ \E id \in DOMAIN vel :
       /\ ConveyorsTouching(id) # {} /\ vel[id].vx = 2 /\ vel[id].vy = 1
  /\ \E id \in DOMAIN vel : ConveyorsTouching(id) = {} /\ vel[id].av = 1

-----------------------------------------------------------------------------
(* C11 *)

\* C11 as stated: the override of a tick never reads a pair list that the
\* update of an earlier tick computed.
C11_AsStated ==
  (Started /\ inTick) => pairsFrom # "earlierTick"

\* C11, amended: within every tick the steps happen in the fixed order
\* override, integration, contact-pair enumeration. The first half of a frame
\* callback runs the hook on the pair list as the engine holds it, without
\* enumerating: the list of the previous tick's update, or the empty list of
\* Engine.create in the first tick. A fresh list is only produced by the
\* second half of a callback, after the override.
C11_OverrideReadsPreviousPairs ==
  [][/\ (~inTick /\ inTick') =>
          /\ pairs' = pairs
          /\ pairsFrom' \in {"create", "earlierTick"}
          /\ hookOn => vel' \in onBeforeUpdate(vel, pairs)
     /\ (pairsFrom' = "thisTick" /\ pairsFrom # "thisTick") => (inTick /\ ~inTick')
     /\ pairsFrom = "create" => pairs = {}]_vars

\* in a later tick, between hook and integration: the hook has clamped a body
\* to the speed of a conveyor that the previous tick's list pairs it with
C11_Witness ==
  /\ Started /\ inTick /\ hookOn
  /\ pairsFrom = "earlierTick"
  /\ \E id \in DOMAIN vel :
       /\ \E c \in ConveyorsTouching(id) : ConfiguredSpeed(c) = 2
       /\ vel[id].vx = 2 /\ vel[id].av = 0

-----------------------------------------------------------------------------
(* C12 *)

\* the only return statement of runSimulation returns { summary, stop }
ReturnsHandle == phase = "running"

\* C12: when start() is called without a container or with an empty object
\* list, it returns no handle, and neither runner nor renderer runs and no
\* body (so no boundary wall) is in the world.
C12_NoSurfaceOrNoObjectsIsError ==
  (phase \in {"running", "failed"} /\ (~scene.layout.container \/ Len(Objects) = 0)) =>
    /\ ~ReturnsHandle
    /\ ~frameRequested /\ ~renderRunning /\ ~hookOn
    /\ bodies = {}

-----------------------------------------------------------------------------
(* C13 *)

RECURSIVE Gcd(_, _)
Gcd(a, b) == IF b = 0 THEN a ELSE Gcd(b, a % b)

\* the object whose body the name-to-body map holds under a name
ObjectOf(name) == Objects[bodiesMap[name][2]]

\* the length of the spec is the one the authoring component computes for the
\* contour: n * length is the distance from n * pivot to the sum of the n points
AuthoredLength(c, contour) ==
  /\ c.length # 0
  /\ c.pivotPoint # NoPoint
  /\ Len(contour) * Len(contour) * c.length * c.length =
       Dist2(Pt(Len(contour) * c.pivotPoint[1].x, Len(contour) * c.pivotPoint[1].y),
             ContourSum(contour))

\* the length len = <<ln, ld>> of a joint is within one pixel of the distance
\* between the point a and the vertex average of the contour pts
WithinOnePixel(len, a, pts) ==
  LET g == Gcd(len[1], len[2])
      ln == len[1] \div g
      ld == len[2] \div g
      n == Len(pts)
      e == Dist2(Pt(n * a.x, n * a.y), ContourSum(pts))
  IN /\ ln <= ld \/ ((ln - ld) * n) * ((ln - ld) * n) <= e * ld * ld
     /\ e * ld * ld <= ((ln + ld) * n) * ((ln + ld) * n)

\* C13, for a spec that carries the authored length: a pendulum whose pivot
\* names no body is anchored at the scaled, rounded pivot point, and its
\* length is (to the pixel) the distance in render space between that anchor
\* and the vertex average of the subject's scaled contour.
C13_PendulumLengthIsCentroidDistance ==
  Started =>
    \A j \in 1..Len(Specs) :
      LET c == Specs[j] IN
      (/\ ~TwoEndpoint(c) /\ c.constraintType = "pendulum"
       /\ ~Resolves(c.pivotName) /\ Resolves(c.bodyName)
       /\ AuthoredLength(c, ObjectOf(c.bodyName).contour)) =>
        /\ HasJoint(j)
        /\ JointOf(j).pointA = <<ScalePoint(c.pivotPoint[1], scene.layout)>>
        /\ JointOf(j).len # <<>>
        /\ WithinOnePixel(JointOf(j).len, JointOf(j).pointA[1],
                          ScaledContour(ObjectOf(c.bodyName)))

-----------------------------------------------------------------------------
(* C14 *)

\* the handles that have not been stopped
Live == { i \in 1..Len(handles) : handles[i] = "running" }

\* C14: at any time at most one handle of the component has not been
\* stopped, and it is the one stored in runningSimulation; a step that calls
\* runSimulation leaves every earlier handle stopped.
C14_AtMostOneLiveHandle ==
  /\ Cardinality(Live) <= 1
  /\ \A i \in Live : stored = i
  /\ stored # 0 => stored = Len(handles)

\* a third handle runs, obtained while the first two were stopped in turn
C14_Witness ==
  /\ Len(handles) = 3
  /\ handles[1] = "stopped" /\ handles[2] = "stopped" /\ handles[3] = "running"
  /\ stored = 3

-----------------------------------------------------------------------------
(* C15 *)

\* the state a call of runSimulation leaves is the one constructed from its
\* argument alone
FreshStart ==
  LET built == Construct(scene'.objects, scene'.constraints, scene'.layout)
  IN /\ bodies' = built.bodies
     /\ joints' = built.joints
     /\ bodiesMap' = built.map
     /\ conveyorParams' = built.conv
     /\ hasStatic' = built.hasStatic
     /\ vel' = built.vel
     /\ listeners' = built.listeners
     /\ pairs' = {} /\ pairsFrom' = "create"
     /\ canvas' = "attached"
     /\ frameRequested' /\ renderRunning' /\ hookOn' /\ ~inTick'

\* C15: a stopped handle stays stopped under every operation on it (a
\* further stop(), a removal timeout that fires): runner, renderer and hook do
\* not run again and the world stays empty. The only step that leaves
\* "stopped" is a new call of runSimulation, and every call of runSimulation
\* leaves an engine, world, name-to-body map, conveyor table, pair list and
\* canvas built from its argument alone, with nothing of an earlier handle.
C15_StoppedIsTerminalStartIsFresh ==
  [][/\ (phase = "stopped" /\ phase' = "stopped") =>
          /\ ~frameRequested' /\ ~renderRunning' /\ ~hookOn' /\ ~inTick'
          /\ bodies' = {} /\ joints' = {} /\ canvas' = "removed"
     /\ (phase = "stopped" /\ phase' # "stopped") => (phase' = "running" /\ calls' = calls)
     /\ (phase # "running" /\ phase' = "running") => FreshStart]_vars

\* a second handle, started after the first was stopped, is stopped in turn
\* while a removal timeout of the first is still pending; its map never held
\* the names of the first scene
C15_Witness ==
  /\ phase = "stopped" /\ calls.stop = 2 /\ calls.canvasRemove = 2
  /\ scene \in NextScenes
  /\ "A" \notin DOMAIN bodiesMap /\ "E" \in DOMAIN bodiesMap
  /\ \E j \in DOMAIN timers : timers[j] > 0

-----------------------------------------------------------------------------
(* C16 *)

\* object i went through the branch that registers its body
Registered(i) == \E b \in bodies : b.id = <<"obj", i>> /\ b.strategy = "convex"

\* the named objects that registered a body under the name
RegisteredAs(name) ==
  { i \in 1..Len(Objects) : Objects[i].name = name /\ name # "" /\ Registered(i) }

Earliest(S) == CHOOSE i \in S : \A k \in S : i <= k
Latest(S) == CHOOSE i \in S : \A k \in S : i >= k

-----------------------------------------------------------------------------
(* C17 *)

Sign(a) == IF a > 0 THEN 1 ELSE IF a < 0 THEN -1 ELSE 0

\* on which side of the line from p to q the point r lies
Orient(p, q, r) == Sign((q.x - p.x) * (r.y - p.y) - (q.y - p.y) * (r.x - p.x))

\* r, known to lie on the line through p and q, lies between them
Between(p, q, r) ==
  /\ Min(p.x, q.x) <= r.x /\ r.x <= Max(p.x, q.x)
  /\ Min(p.y, q.y) <= r.y /\ r.y <= Max(p.y, q.y)

\* the closed segments ab and cd have a point in common
SegmentsMeet(a, b, c, d) ==
  \/ Orient(a, b, c) # Orient(a, b, d) /\ Orient(c, d, a) # Orient(c, d, b)
  \/ Orient(a, b, c) = 0 /\ Between(a, b, c)
  \/ Orient(a, b, d) = 0 /\ Between(a, b, d)
  \/ Orient(c, d, a) = 0 /\ Between(c, d, a)
  \/ Orient(c, d, b) = 0 /\ Between(c, d, b)

NextIndex(points, k) == (k % Len(points)) + 1

\* a simple polygon: at least 3 distinct points, edges that are not
\* neighbours have no point in common, and no edge folds back onto the one before
IsSimple(points) ==
  /\ Len(points) >= 3
  /\ \A i, k \in 1..Len(points) : i # k => points[i] # points[k]
  /\ \A i, k \in 1..Len(points) :
       (i # k /\ NextIndex(points, i) # k /\ NextIndex(points, k) # i) =>
         ~SegmentsMeet(points[i], points[NextIndex(points, i)],
                       points[k], points[NextIndex(points, k)])
  /\ \A i \in 1..Len(points) :
       LET p == points[i]
           q == points[NextIndex(points, i)]
           r == points[NextIndex(points, NextIndex(points, i))]
       IN ~(Orient(p, q, r) = 0 /\ (p.x - q.x) * (r.x - q.x) + (p.y - q.y) * (r.y - q.y) > 0)

RECURSIVE SumOfAreas(_, _)
\* the sum of polygonArea over the first k triangles
SumOfAreas(triangles, k) ==
  IF k = 0 THEN 0 ELSE polygonArea(triangles[k]) + SumOfAreas(triangles, k - 1)

\* C17: for every simple polygon the areas of the fan triangles add up to the
\* area of the polygon (the triangles are in units of 1/n, their areas in
\* units of 1/n^2).
C17_FanAreaEqualsShoelaceArea ==
  (res.fn = "decomposeToTriangleFan" /\ IsSimple(arg)) =>
    SumOfAreas(res.value, Len(res.value)) = Len(arg) * Len(arg) * polygonArea(arg)

-----------------------------------------------------------------------------
(* C18 *)

\* C18: preprocessContour applied to its own result returns that result, for
\* every point sequence, those that collapse below 3 points included.
C18_PreprocessContourIdempotent ==
  res.fn = "preprocessContour" => preprocessContour(res.value) = res.value

\* a sequence of 4 points from which one was removed
C18_Witness ==
  /\ res.fn = "preprocessContour"
  /\ Len(arg) = 4 /\ Len(res.value) = 3

-----------------------------------------------------------------------------
(* C19 *)

\* the sequence started k places later, the points before it moved to the end
Rotate(seq, k) == [i \in 1..Len(seq) |-> seq[((i - 1 + k) % Len(seq)) + 1]]

\* the sequence in the opposite direction
Backwards(seq) == [i \in 1..Len(seq) |-> seq[Len(seq) + 1 - i]]

\* the unit square in half units, in drawing order
UnitSquare == <<Pt(0, 0), Pt(2, 0), Pt(2, 2), Pt(0, 2)>>

\* the corners of the unit square in either direction from any starting corner
IsUnitSquare(seq) ==
  /\ Len(seq) = 4
  /\ \E k \in 0..3 : seq = Rotate(UnitSquare, k) \/ seq = Rotate(Backwards(UnitSquare), k)

StrictlyInside(p) == 0 < p.x /\ p.x < 2 /\ 0 < p.y /\ p.y < 2
StrictlyOutside(p) == p.x < 0 \/ p.x > 2 \/ p.y < 0 \/ p.y > 2

\* C19: isPointInContour gives the same answer for the query point under every
\* cyclic shift of the vertex list, is true strictly inside the unit square
\* and false strictly outside it, and is false for fewer than 3 points.
C19_RayCastShiftInvariantAndCorrectOnSquare ==
  res.fn = "isPointInContour" =>
    /\ \A k \in 0..(Len(arg) - 1) : isPointInContour(res.point, Rotate(arg, k)) = res.value
    /\ Len(arg) < 3 => res.value = FALSE
    /\ IsUnitSquare(arg) =>
         /\ StrictlyInside(res.point) => res.value = TRUE
         /\ StrictlyOutside(res.point) => res.value = FALSE

\* the square started at another corner, queried at its centre
C19_Witness ==
  /\ res.fn = "isPointInContour"
  /\ IsUnitSquare(arg) /\ arg[1] # Pt(0, 0)
  /\ res.point = Pt(1, 1) /\ res.value = TRUE

-----------------------------------------------------------------------------
(* C20 *)

\* the contour the strategies work on: scaled to the render surface, rounded
\* and sanitized; valid when 3 or more points are given and 3 or more are kept
SanitizedContour(obj) == DedupAll(ScaledContour(obj))
HasValidContour(obj) == Len(obj.contour) >= 3 /\ Len(SanitizedContour(obj)) >= 3

\* the triangle (C, P[k], P[k+1 mod n]) in units of 1/n, C the vertex average
FanTriangleOf(P, k) ==
  <<ContourSum(P), Pt(Len(P) * P[k].x, Len(P) * P[k].y),
    Pt(Len(P) * P[(k % Len(P)) + 1].x, Len(P) * P[(k % Len(P)) + 1].y)>>

\* C20: an object of role constraint gets no body; every other object with a
\* valid contour, P its n sanitized points, gets its bodies from exactly one
\* strategy: not concave, one body from the contour, static exactly when the
\* role is static; concave and static, exactly n static triangle bodies
\* (C, P[k], P[k+1 mod n]) and no hull body; concave and not static, exactly
\* one hull body.
C20_OneStrategyPerObject ==
  Started =>
    \A i \in 1..Len(Objects) :
      LET obj == Objects[i]
          B == BodiesOfObject(i)
      IN /\ obj.role = "constraint" => B = {}
         /\ (obj.role # "constraint" /\ HasValidContour(obj)) =>
              LET P == SanitizedContour(obj)
                  n == Len(P)
              IN /\ ~obj.is_concave =>
                      /\ Cardinality(B) = 1
                      /\ \A b \in B : b.strategy = "convex" /\ b.isStatic = (obj.role = "static")
                 /\ (obj.is_concave /\ obj.role = "static") =>
                      /\ Cardinality(B) = n
                      /\ \A b \in B : b.strategy = "fan" /\ b.isStatic
                      /\ \A k \in 1..n : \E b \in B : b.id[3] = k /\ b.geom = <<FanTriangleOf(P, k)>>
                 /\ (obj.is_concave /\ obj.role # "static") =>
                      /\ Cardinality(B) = 1
                      /\ \A b \in B : b.strategy = "hull" /\ ~b.isStatic

\* a static concave object of 5 points, 4 of them kept, in 4 triangles, a
\* dynamic concave object as a hull and an object of role constraint
C20_Witness ==
  /\ Started
  /\ \E i, j, k \in 1..Len(Objects) :
       /\ Objects[i].is_concave /\ Objects[i].role = "static"
       /\ Len(Objects[i].contour) = 5
       /\ Cardinality(BodiesOfObject(i)) = 4
       /\ Objects[j].is_concave /\ Objects[j].role = "dynamic"
       /\ \E b \in BodiesOfObject(j) : b.strategy = "hull"
       /\ Objects[k].role = "constraint"

-----------------------------------------------------------------------------
(* C21 *)

\* the object asks for a conveyor: element_type conveyor_belt or a numeric conveyor_speed
AsksConveyor(obj) == obj.belt \/ obj.hasSpeed
AskedSpeed(obj) == IF obj.hasSpeed THEN obj.speed ELSE 0

\* C21: every body of a static object that asks for a conveyor, whatever the
\* strategy that built it, is tagged conveyor and the hook's lookup gives the
\* object's speed for it; no body of an object that is not static is tagged.
C21_StaticConveyorsTaggedWhateverStrategy ==
  Started =>
    \A i \in 1..Len(Objects) :
      \A b \in BodiesOfObject(i) :
        /\ (Objects[i].role = "static" /\ AsksConveyor(Objects[i])) =>
             (b.label = "conveyor" /\ LookupSpeed(b.id) = AskedSpeed(Objects[i]))
        /\ Objects[i].role # "static" => b.label # "conveyor"

\* the part that holds: only bodies of the convex strategy are ever tagged,
\* and never a body of an object that is not static
C21_OnlyConvexStaticTagged ==
  Started =>
    \A i \in 1..Len(Objects) :
      \A b \in BodiesOfObject(i) :
        b.label = "conveyor" <=>
          (Objects[i].role = "static" /\ AsksConveyor(Objects[i]) /\ ~Objects[i].is_concave)

-----------------------------------------------------------------------------
(* C22 *)

\* the step in which the beforeUpdate hook runs
HookStep == ~inTick /\ inTick'

\* C22: the hook changes nothing but the horizontal and the angular velocity
\* of non-static bodies that the pair list pairs with a conveyor: the
\* vertical velocity of every body stays, a body paired with no conveyor
\* keeps its whole velocity, and no body record (static or not), constraint,
\* map entry or pair changes.
C22_HookFrame ==
  [][HookStep =>
       /\ DOMAIN vel' = DOMAIN vel
       /\ \A id \in DOMAIN vel :
            /\ IsDynamic(id)
            /\ vel'[id].vy = vel[id].vy
            /\ ConveyorsTouching(id) = {} => vel'[id] = vel[id]
       /\ UNCHANGED <<bodies, joints, bodiesMap, conveyorParams, pairs>>]_vars

\* after the hook: a body on the conveyor of speed 2 still falls at 1 and no
\* longer spins, a body paired with no conveyor still moves and spins
C22_Witness ==
  /\ Started /\ inTick /\ hookOn
  /\ \E id \in DOMAIN vel :
       ConveyorsTouching(id) # {} /\ vel[id] = [vx |-> 2, vy |-> 1, av |-> 0]
  /\ \E id \in DOMAIN vel : ConveyorsTouching(id) = {} /\ vel[id] = Moving

-----------------------------------------------------------------------------
(* C23 *)

JointsOf(j) == { jt \in joints : jt.id = <<"con", j>> }
SlugsOf(j) == { b \in bodies : b.id = <<"slug", j>> }

\* end A (resp. B) of the joint is the endpoint the spec names: the body of
\* that name when there is one, else the fixed world point, scaled
JoinsAtA(jt, name, p) ==
  IF Resolves(name) THEN jt.bodyA = bodiesMap[name] /\ jt.pointA = NoPoint ELSE FixedAtA(jt, p)
JoinsAtB(jt, name, p) ==
  IF Resolves(name) THEN jt.bodyB = bodiesMap[name] /\ jt.pointB = NoPoint ELSE FixedAtB(jt, p)

\* b lies 90% of the way from the first point of the spec to the second, both
\* scaled (coordinates in tenths)
AtNineTenths(b, c) ==
  LET f == ScalePoint(PointOrZero(c.pivotPoint), scene.layout)
      g == ScalePoint(PointOrZero(c.secondPivotPoint), scene.layout)
  IN b.geom = <<f.x + 9 * g.x, f.y + 9 * g.y>>

SpringConstraintAdds(j) ==
  /\ Cardinality(JointsOf(j)) = 1 /\ SlugsOf(j) = {}
  /\ \A jt \in JointsOf(j) :
       /\ JoinsAtA(jt, Specs[j].pivotName, Specs[j].pivotPoint)
       /\ JoinsAtB(jt, Specs[j].secondPivotName, Specs[j].secondPivotPoint)

SpringLauncherAdds(j) ==
  /\ Cardinality(JointsOf(j)) = 1 /\ Cardinality(SlugsOf(j)) = 1
  /\ \A b \in SlugsOf(j) : AtNineTenths(b, Specs[j])
  /\ \A jt \in JointsOf(j) :
       /\ JoinsAtA(jt, Specs[j].pivotName, Specs[j].pivotPoint)
       /\ jt.bodyB = <<"slug", j>>

SinglePivotAdds(j) ==
  /\ Cardinality(JointsOf(j)) = 1 /\ SlugsOf(j) = {}
  /\ \A jt \in JointsOf(j) :
       /\ JoinsAtA(jt, Specs[j].pivotName, Specs[j].pivotPoint)
       /\ Resolves(Specs[j].bodyName) /\ jt.bodyB = bodiesMap[Specs[j].bodyName]

\* the constraints stand in the world's list in the order of their specs
InInputOrder ==
  /\ { jt.pos : jt \in joints } = 1..Cardinality(joints)
  /\ \A jt, ju \in joints : jt.id[2] < ju.id[2] => jt.pos < ju.pos

\* C23 as stated: every spec adds its constraint, a single-pivot spec exactly
\* one between the subject and its pivot.
C23_AsStated ==
  Started =>
    /\ \A j \in 1..Len(Specs) :
         IF TwoEndpoint(Specs[j])
         THEN IF Specs[j].springType = "constraint"
              THEN SpringConstraintAdds(j) ELSE SpringLauncherAdds(j)
         ELSE SinglePivotAdds(j)
    /\ InInputOrder

\* C23, amended: a two-endpoint spring_constraint adds exactly one constraint
\* joining its two endpoints and no body; a two-endpoint spring_launcher adds
\* exactly one slug, 90% of the way from the first endpoint to the second,
\* and exactly one constraint from the first endpoint to the slug; every
\* other spec adds exactly one constraint between its subject and its pivot
\* when the subject names a registered body, and nothing when it does not.
\* The constraints that are added stand in input order.
C23_DispatchByKind ==
  Started =>
    /\ \A j \in 1..Len(Specs) :
         IF TwoEndpoint(Specs[j])
         THEN IF Specs[j].springType = "constraint"
              THEN SpringConstraintAdds(j) ELSE SpringLauncherAdds(j)
         ELSE IF Resolves(Specs[j].bodyName) THEN SinglePivotAdds(j)
              ELSE JointsOf(j) = {} /\ SlugsOf(j) = {}
    /\ \A jt \in joints : jt.id[2] \in 1..Len(Specs)
    /\ InInputOrder

\* a launcher, then a single-pivot spec whose subject is no body, then a
\* spring constraint, which stands second in the world's list
C23_Witness ==
  /\ Started /\ Len(Specs) = 3
  /\ TwoEndpoint(Specs[1]) /\ Specs[1].springType = "launcher" /\ SlugsOf(1) # {}
  /\ ~TwoEndpoint(Specs[2]) /\ JointsOf(2) = {}
  /\ TwoEndpoint(Specs[3]) /\ Specs[3].springType = "constraint"
  /\ \E jt \in JointsOf(3) : jt.pos = 2

-----------------------------------------------------------------------------
(* C24 *)

\* a step in which a removal timeout runs
RemovalStep == \E j \in DOMAIN timers : j \in DOMAIN timers' /\ timers'[j] < timers[j]

\* C24: a removal timeout runs only between two ticks, never between the
\* hook and the end of the backend update; and while the simulation runs,
\* the name-to-body map and the conveyor table are never modified and the
\* bodies and constraints change in a removal step at most, and then only by
\* losing launcher slugs and launcher constraints.
C24_RemovalDeferredWorldOtherwiseFixed ==
  [][/\ RemovalStep => (~inTick /\ ~inTick')
     /\ (Started /\ Started') =>
          /\ UNCHANGED <<bodiesMap, conveyorParams>>
          /\ ~RemovalStep => UNCHANGED <<bodies, joints>>
          /\ RemovalStep =>
               /\ bodies' \subseteq bodies /\ joints' \subseteq joints
               /\ \A b \in bodies \ bodies' : b.strategy = "slug"
               /\ \A jt \in joints \ joints' : jt.type = "launcher"]_vars

\* a removal timeout has run while the simulation is running, after the tick
\* that scheduled it and before the next
C24_Witness ==
  /\ Started /\ ~inTick
  /\ fired # {}
  /\ pairsFrom = "thisTick"

-----------------------------------------------------------------------------
(* C25 *)

\* what the construction puts into the world for the present scene
Constructed == Construct(scene.objects, scene.constraints, scene.layout)

\* C25: whenever a frame callback of the runner can run, the hook is
\* subscribed; every tick runs the hook, and at the first tick the world holds
\* all bodies, constraints and boundary walls of the construction.
C25_WorldAndHookReadyBeforeFirstTick ==
  [][/\ frameRequested => hookOn
     /\ HookStep =>
          /\ hookOn /\ vel' \in onBeforeUpdate(vel, pairs)
          /\ pairsFrom = "create" =>
               /\ bodies = Constructed.bodies /\ joints = Constructed.joints
               /\ ~hasStatic => Cardinality(Walls) = 4]_vars

\* the first tick of a scene without a static object: the hook has run and
\* the four walls are in the world
C25_Witness ==
  /\ Started /\ inTick /\ hookOn
  /\ pairsFrom = "create"
  /\ ~hasStatic /\ Cardinality(Walls) = 4

-----------------------------------------------------------------------------
\* C26: in the authoring component a start request is never accepted while a
\* pivot or endpoint selection is unfinished: whenever pendingPivotSelection
\* is non-null, in any of the three selection modes, the request is rejected
\* and runSimulation is not called. Stated of every step in which
\* handleStartSimulate gets past its checks.
C26_NoStartWhileSelecting ==
  [][lastEvent' = "start" => pendingPivotSelection = NoSelection]_vars

-----------------------------------------------------------------------------
\* the constraint a step has appended to the relations, which it otherwise kept
AppendedOne(c) ==
  /\ Len(constraintRelations') = Len(constraintRelations) + 1
  /\ SubSeq(constraintRelations', 1, Len(constraintRelations)) = constraintRelations
  /\ c = constraintRelations'[Len(constraintRelations')]

BackToSegment == interactionMode' = "segment" /\ pendingPivotSelection' = NoSelection

ModeMatchesPending ==
  /\ (interactionMode = "segment") <=> (pendingPivotSelection = NoSelection)
  /\ interactionMode = "select_second_endpoint" => pendingPivotSelection.firstPoint # <<>>

SelectionStep ==
  /\ lastEvent' = "pivot click" /\ interactionMode = "select_pivot" =>
       /\ BackToSegment
       /\ \E c \in {constraintRelations'[i] : i \in 1..Len(constraintRelations')} :
            /\ AppendedOne(c)
            /\ c.bodyName = pendingPivotSelection.element.name
            /\ c.secondPivotPoint = NoPoint /\ c.springType = "null"
  /\ lastEvent' = "pivot click" /\ interactionMode = "select_first_endpoint" =>
       /\ constraintRelations' = constraintRelations
       /\ interactionMode' = "select_second_endpoint"
  /\ lastEvent' = "second endpoint click" =>
       /\ BackToSegment
       /\ \E c \in {constraintRelations'[i] : i \in 1..Len(constraintRelations')} :
            /\ AppendedOne(c)
            /\ c.bodyName = pendingPivotSelection.element.name
            /\ c.pivotPoint # NoPoint /\ c.secondPivotPoint # NoPoint
            /\ c.constraintType = "spring"
            /\ c.springType = IF pendingPivotSelection.element.element_type = "spring_launcher"
                                THEN "launcher" ELSE "constraint"
  /\ lastEvent' = "cancel" =>
       /\ BackToSegment
       /\ constraintRelations' = constraintRelations
  /\ lastEvent' \in {"segment request", "segment response", "assign"} =>
       constraintRelations' = constraintRelations

\* C28: after any sequence of assignments, pivot clicks, second-endpoint
\* clicks, cancels and late segmentation responses, the mode is 'segment'
\* exactly when no selection is pending and mode 'select_second_endpoint' has
\* the first point set; every completed selection appends exactly one
\* constraint of its kind (single-pivot in pendulum mode, two-endpoint in the
\* spring modes) and returns to 'segment'; cancel appends none.
C28_SelectionFlow == []ModeMatchesPending /\ [][SelectionStep]_vars

\* a launcher spring was completed between two assigned elements after a
\* segmentation response arrived during the selection
C28_Witness ==
  /\ lastEvent = "second endpoint click"
  /\ interactionMode = "segment"
  /\ lastImageContour
  /\ Len(constraintRelations) = 1
  /\ constraintRelations[1].springType = "launcher"
  /\ constraintRelations[1].secondPivotName = "ball"

-----------------------------------------------------------------------------
\* C27: the summary of the handle reports the counts of the input scene
\* description: the object count is objects.length, the constraint count is
\* constraints.length and is left out exactly when that is 0, however many
\* bodies and constraints were realized.
C27_SummaryCountsTheInput ==
  ReturnsHandle =>
    /\ summary.objects = Len(scene.objects)
    /\ summary.constraints = <<>> <=> Len(scene.constraints) = 0
    /\ summary.constraints # <<>> => summary.constraints = <<Len(scene.constraints)>>

\* a handle whose scene has a skipped object or a marker object, and a
\* constraint that was skipped
C27_Witness ==
  /\ ReturnsHandle
  /\ summary.constraints = <<Len(scene.constraints)>>
  /\ \E j \in 1..Len(Specs) : ~HasJoint(j)
  /\ \E i \in 1..Len(Objects) : BodiesOfObject(i) = {}

-----------------------------------------------------------------------------
\* the listener of launcher j, and the pairs that started in this step
ListenerOf(j) == CHOOSE l \in listeners : l.con = j
StartedPairs == { p \in pairs' : p \notin pairs /\ Reverse(p) \notin pairs }

\* a contact between the slug of launcher j and its second-endpoint body starts
OwnContactStarts(j) ==
  /\ ListenerOf(j).secondBody # NoBody
  /\ \E p \in StartedPairs : {p[1], p[2]} = {<<"slug", j>>, ListenerOf(j).secondBody}

Schedulings(j) == timers[j] + (IF j \in fired THEN 1 ELSE 0)

\* a removal of launcher j is scheduled only by its own contact
OnlyOwnContactSchedules ==
  [][\A j \in DOMAIN timers \cap DOMAIN timers' :
       timers'[j] > timers[j] => OwnContactStarts(j)]_vars

\* a launcher whose second endpoint is a world anchor never has a removal scheduled
AnchoredNeverSchedules ==
  \A j \in DOMAIN timers :
    (\E l \in listeners : l.con = j /\ l.secondBody = NoBody) => Schedulings(j) = 0

ScheduledAtMostOnce == \A j \in DOMAIN timers : Schedulings(j) <= 1

\* C29: with several spring launchers, the removal of a launcher's slug and
\* constraint is scheduled only by a contact between its own slug and its own
\* second-endpoint body; never by a contact of another launcher's slug; never
\* for a launcher whose second endpoint is a world anchor; and at most once
\* per launcher.
C29_OwnContactSchedulesOnce ==
  /\ OnlyOwnContactSchedules
  /\ []AnchoredNeverSchedules
  /\ []ScheduledAtMostOnce

-----------------------------------------------------------------------------
LoggedInIffToken == isLoggedIn <=> token # NoToken

UpdateUserChangesOnlyUser ==
  [][lastResponse' = [via |-> "updateUser"] =>
       /\ token' = token /\ isLoggedIn' = isLoggedIn /\ requests' = requests
       /\ user' \in Users]_vars

\* a step that handles a response with status 401
Handles401 ==
  /\ requests' # requests /\ requests' \subseteq requests
  /\ lastResponse'.status = 401

LoggedOutAndRejected ==
  /\ token' = NoToken /\ user' = NoUser /\ ~isLoggedIn'
  /\ lastResponse'.outcome = "rejected"

\* a 401 through the axios instance logs out and is rejected
Axios401LogsOut ==
  [][Handles401 /\ lastResponse'.via = "axios" => LoggedOutAndRejected]_vars

\* a request sent carries the token the store holds at that time
RequestsCarryStoreToken ==
  [][\A r \in requests' \ requests : r.token = token]_vars

\* C30: after any sequence of login with a non-empty token, logout,
\* updateUser and API responses, isLoggedIn is true exactly when the token is
\* non-null; updateUser changes only the user; and every API response with
\* status 401 leaves the store logged out (token null, user null, isLoggedIn
\* false) and is rejected to the caller, so that no later request carries the
\* expired token.
C30_Every401LogsOut ==
  /\ []LoggedInIffToken
  /\ UpdateUserChangesOnlyUser
  /\ [][Handles401 => LoggedOutAndRejected]_vars

=============================================================================
